---- MODULE Spec2Model ----
(***************************************************************************)
(* A model of the Cornucopia screening core:                               *)
(*   src/src/CrossSignalStrategy.py         AShareDataFetcher,             *)
(*                                          MovingAverageAnalyzer,         *)
(*                                          StockScreener                  *)
(*   src/src/easypicking/strategies/pickstock.py   QuantStockSelector      *)
(*                                                                         *)
(* Time is counted in hours.  A pandas DataFrame is a record               *)
(* [kind |-> "df", rows |-> <<...>>, ...]; Python's None is the record     *)
(* None; a raised exception is the record Raise(e).  Floating-point        *)
(* arithmetic is modelled exactly, by cross-multiplied integers.           *)
(***************************************************************************)
EXTENDS Integers, Sequences, FiniteSets, TLC

VARIABLES
    now,          \* the wall clock (datetime.datetime.now()), in hours
    stockCache,   \* cache_dir/stocks/<symbol>.pkl, one file per symbol
    listCache,    \* cache_dir/a_stocks_list.pkl
    call,         \* the fetcher call in progress, or the last one returned
    ma,           \* one run of the moving-average analyzer: its input and output
    scr,          \* one run of StockScreener.screen_stocks
    mf,           \* one run of QuantStockSelector.multi_factor_selection
    mgr           \* the StrategyManager: its registry and the last request

fetcherVars == <<now, stockCache, listCache, call>>
vars == <<now, stockCache, listCache, call, ma, scr, mf, mgr>>

----------------------------------------------------------------------------
(* Program constants *)

\* days: int = 120, the span of history get_stock_data asks for
DefaultDays == 120
\* timedelta(hours=6): a series cache file younger than this is valid
SeriesTTL == 6
\* timedelta(days=1), in hours: the universe cache file's time to live
UniverseTTL == 24
\* len(df) >= 20: the fewest bars of a usable series
MinBars == 20

\* a slip in the priority order: yfinance ahead of akshare
data_sources_swapped == <<"yfinance", "akshare", "eastmoney">>

\* self.data_sources, in priority order
data_sources == <<"akshare", "yfinance", "eastmoney">>

(* Bounds of the model *)

\* the clock advances in steps of TickStep hours, up to MaxTime
TickStep == 3
MaxTime == 6

Symbols == {"600519", "000001"}
Names == {"nameA", "nameB"}

----------------------------------------------------------------------------
(* Values *)

None == [kind |-> "none"]
Raise(e) == [kind |-> "raise", exc |-> e]

\* a file of the cache directory: absent, unreadable, or a pickled frame
NoFile == [kind |-> "none", mtime |-> 0, df |-> None]
CorruptFile(t) == [kind |-> "corrupt", mtime |-> t, df |-> None]
PickleFile(t, df) == [kind |-> "pickle", mtime |-> t, df |-> df]

\* a price frame of n bars dated last-n+1 .. last, closing at 100 but for the
\* last bar, which closes at tail
MkRows(n, last, tail) ==
    [i \in 1..n |-> [date |-> last - n + i, close |-> IF i = n THEN tail ELSE 100]]

\* the rows of s with rows i and j exchanged
SwapRows(s, i, j) ==
    [k \in 1..Len(s) |-> IF k = i THEN s[j] ELSE IF k = j THEN s[i] ELSE s[k]]

\* what a provider answers to one request
RespError == [kind |-> "error", rows |-> <<>>, dtype |-> "float"]
RespMalformed == [kind |-> "malformed", rows |-> <<>>, dtype |-> "float"]
RespRows(rows, dtype) == [kind |-> "rows", rows |-> rows, dtype |-> dtype]

----------------------------------------------------------------------------
(* AShareDataFetcher: the source adapters *)

\* r put into s, which is sorted by date, behind the rows dated as r or earlier
RECURSIVE MergeByDate(_, _)
MergeByDate(a, b) ==
    IF a = <<>> THEN b
    ELSE IF b = <<>> THEN a
    ELSE IF a[1].date <= b[1].date THEN <<a[1]>> \o MergeByDate(Tail(a), b)
    ELSE <<b[1]>> \o MergeByDate(a, Tail(b))

\* df.sort_index(): the rows in ascending order of date
RECURSIVE sort_index(_)
sort_index(rows) ==
    IF Len(rows) <= 1 THEN rows
    ELSE LET h == Len(rows) \div 2
         IN MergeByDate(sort_index(SubSeq(rows, 1, h)),
                        sort_index(SubSeq(rows, h + 1, Len(rows))))

Frame(rows, dtype) ==
    [kind |-> "df", rows |-> rows, dtype |-> dtype, symbol |-> "", name |-> ""]

\* an exception of the request or of the renaming is caught: None; an empty
\* frame: None; else the frame, indexed by date and sorted
_fetch_from_akshare(resp) ==
    IF resp.kind # "rows" \/ resp.rows = <<>> THEN None
    ELSE Frame(sort_index(resp.rows), resp.dtype)

\* as above, but the provider's frame is returned in the provider's order
_fetch_from_yfinance(resp) ==
    IF resp.kind # "rows" \/ resp.rows = <<>> THEN None
    ELSE Frame(resp.rows, resp.dtype)

\* data['data'] is None: None; every field goes through float(), which
\* raises on text that is no number (caught: None); no kline at all makes
\* df['date'] raise (caught: None)
_fetch_from_eastmoney(resp) ==
    IF resp.kind # "rows" \/ resp.rows = <<>> \/ resp.dtype # "float" THEN None
    ELSE Frame(sort_index(resp.rows), "float")

source_func(src, resp) ==
    CASE src = "akshare" -> _fetch_from_akshare(resp)
      [] src = "yfinance" -> _fetch_from_yfinance(resp)
      [] OTHER -> _fetch_from_eastmoney(resp)

----------------------------------------------------------------------------
(* AShareDataFetcher.get_stock_data *)

\* df is not None and not df.empty and len(df) >= 20
Usable(df) == df.kind = "df" /\ df.rows # <<>> /\ Len(df.rows) >= MinBars

\* a slip in the comparison: a file exactly ttl old still counts as valid
Fresh_inclusive(file, t, ttl) == file.kind # "none" /\ t - file.mtime <= ttl

\* datetime.now() - cache_time < ttl, for a file that exists
Fresh(file, t, ttl) == file.kind # "none" /\ t - file.mtime < ttl

\* df.to_pickle(cache_file): written, refused, or broken off half-way
to_pickle(file, df, t, wr) ==
    CASE wr = "ok" -> PickleFile(t, df)
      [] wr = "partial" -> CorruptFile(t)
      [] OTHER -> file

\* the loop over self.data_sources from source i on: the adapters invoked, in
\* order, what each returned, and the frame accepted (or None)
RECURSIVE TrySources(_, _)
TrySources(i, resps) ==
    IF i > Len(data_sources) THEN [invoked |-> <<>>, got |-> <<>>, df |-> None]
    ELSE LET src == data_sources[i]
             df == source_func(src, resps[src])
         IN IF Usable(df)
            THEN [invoked |-> <<src>>, got |-> <<df>>, df |-> df]
            ELSE LET rest == TrySources(i + 1, resps)
                 IN [invoked |-> <<src>> \o rest.invoked,
                     got |-> <<df>> \o rest.got,
                     df |-> rest.df]

\* a slip: read_pickle outside the try, so an unreadable file raises
CacheLookup_unguarded(file, t) ==
    IF Fresh(file, t, SeriesTTL) /\ file.kind = "corrupt" THEN Raise("UnpicklingError")
    ELSE IF Fresh(file, t, SeriesTTL) /\ file.kind = "pickle" /\ Usable(file.df)
    THEN file.df ELSE None

\* a slip: a cached frame needs more than MinBars bars
CacheLookup_strict(file, t) ==
    IF Fresh(file, t, SeriesTTL) /\ file.kind = "pickle" /\ Len(file.df.rows) > MinBars
    THEN file.df ELSE None

\* a slip: any readable fresh file is returned, however few bars it holds
CacheLookup_anyFrame(file, t) ==
    IF Fresh(file, t, SeriesTTL) /\ file.kind = "pickle" THEN file.df ELSE None

\* lines 174-182: the cached frame, if the file is fresh, readable and usable
CacheLookup(file, t) ==
    IF Fresh(file, t, SeriesTTL) /\ file.kind = "pickle" /\ Usable(file.df)
    THEN file.df ELSE None

\* lines 185-186: the requested range in days, for a call at hour t; the day
\* the clock starts is numbered 50
end_date(t) == 50 + t \div 24
start_date(t, days) == end_date(t) - days

\* the whole call: resps are the answers the providers would give, wr the
\* fate of the cache write
get_stock_data(file, t, symbol, name, resps, wr) ==
    LET cached == CacheLookup(file, t)
        tried == TrySources(1, resps)
    IN IF cached # None
       THEN [ret |-> cached, hit |-> TRUE, invoked |-> <<>>, got |-> <<>>,
             wr |-> "none", file |-> file]
       ELSE IF tried.df # None
       THEN LET df == [tried.df EXCEPT !.symbol = symbol, !.name = name]
            IN [ret |-> df, hit |-> FALSE, invoked |-> tried.invoked,
                got |-> tried.got, wr |-> wr, file |-> to_pickle(file, df, t, wr)]
       ELSE [ret |-> None, hit |-> FALSE, invoked |-> tried.invoked,
             got |-> tried.got, wr |-> "none", file |-> file]

----------------------------------------------------------------------------
(* AShareDataFetcher.get_all_a_stocks *)

Listing(codes) == [i \in 1..Len(codes) |-> [symbol |-> codes[i], name |-> codes[i]]]

_get_local_stock_list ==
    Listing(<<"000001", "000002", "000858", "000333", "000651", "600519",
              "600036", "601318", "601888", "300750", "002415", "002594",
              "300059", "600276", "600887">>)

_create_basic_stock_list ==
    Listing(<<"600519", "600036", "601318", "600276", "600887", "601166",
              "600030", "600837", "601668", "000858", "000333", "000651",
              "002415", "002594", "300750", "300059", "300760", "300124",
              "300142">>)

\* a Python value bound to stocks_list: a list of dicts or a DataFrame
PyList(rows) == [type |-> "list", rows |-> rows]
PyFrame(rows) == [type |-> "DataFrame", rows |-> rows]

\* "stocks_list is None or stocks_list.empty": a list has no attribute empty
IsNoneOrEmpty(v) ==
    IF v.type = "DataFrame"
    THEN IF v.rows = <<>> THEN "true" ELSE "false"
    ELSE "AttributeError"

\* lines 71-82: stocks_list = [], replaced by the primary listing when the
\* request succeeds with a non-empty frame
PrimaryListing(resp) ==
    IF resp.kind = "rows" /\ resp.rows # <<>> THEN PyFrame(resp.rows) ELSE PyList(<<>>)

\* a slip: the universe fetched on a miss is returned without being saved
get_all_a_stocks_unsaved(file, t, resp, wr) ==
    LET s1 == PrimaryListing(resp)
        t1 == IsNoneOrEmpty(s1)
        s2 == IF t1 = "true" THEN PyList(_get_local_stock_list) ELSE s1
        t2 == IsNoneOrEmpty(s2)
        s3 == IF t2 = "true" THEN PyList(_create_basic_stock_list) ELSE s2
        df == [kind |-> "df", rows |-> s3.rows]
        asked == <<"akshare">> \o (IF t1 = "true" THEN <<"local">> ELSE <<>>)
                               \o (IF t1 # "AttributeError" /\ t2 = "true"
                                   THEN <<"basic">> ELSE <<>>)
    IN IF Fresh(file, t, UniverseTTL) /\ file.kind = "pickle"
       THEN [ret |-> file.df, hit |-> TRUE, invoked |-> <<>>, got |-> <<>>,
             wr |-> "none", file |-> file]
       ELSE IF t1 = "AttributeError" \/ t2 = "AttributeError"
       THEN [ret |-> Raise("AttributeError"), hit |-> FALSE, invoked |-> asked,
             got |-> <<s1>>, wr |-> "none", file |-> file]
       ELSE [ret |-> df, hit |-> FALSE, invoked |-> asked, got |-> <<s1>>,
             wr |-> "none", file |-> file]

get_all_a_stocks(file, t, resp, wr) ==
    LET s1 == PrimaryListing(resp)
        t1 == IsNoneOrEmpty(s1)
        s2 == IF t1 = "true" THEN PyList(_get_local_stock_list) ELSE s1
        t2 == IsNoneOrEmpty(s2)
        s3 == IF t2 = "true" THEN PyList(_create_basic_stock_list) ELSE s2
        df == [kind |-> "df", rows |-> s3.rows]
        asked == <<"akshare">> \o (IF t1 = "true" THEN <<"local">> ELSE <<>>)
                               \o (IF t1 # "AttributeError" /\ t2 = "true"
                                   THEN <<"basic">> ELSE <<>>)
    IN IF Fresh(file, t, UniverseTTL) /\ file.kind = "pickle"
       THEN [ret |-> file.df, hit |-> TRUE, invoked |-> <<>>, got |-> <<>>,
             wr |-> "none", file |-> file]
       ELSE IF t1 = "AttributeError" \/ t2 = "AttributeError"
       THEN [ret |-> Raise("AttributeError"), hit |-> FALSE, invoked |-> asked,
             got |-> <<s1>>, wr |-> "none", file |-> file]
       ELSE [ret |-> IF wr = "ok" THEN df ELSE Raise("OSError"), hit |-> FALSE,
             invoked |-> asked, got |-> <<s1>>, wr |-> wr,
             file |-> to_pickle(file, df, t, wr)]

----------------------------------------------------------------------------
(* The fetcher called by a client, with the clock running.  A call of      *)
(* get_stock_data advances one provider request at a time; the clock is    *)
(* read once per call, so a call is taken to fall within one clock step.   *)

\* the answers the providers give in this model: a failure of each kind, a
\* series one bar short, and a usable series that differs between providers
ShortRows == MkRows(MinBars - 1, 50, 100)
GoodRows(src) ==
    CASE src = "akshare" -> MkRows(MinBars, 50, 101)
      [] src = "yfinance" -> SwapRows(MkRows(MinBars + 1, 50, 102), 1, 2)
      [] OTHER -> MkRows(MinBars + 2, 50, 103)

\* a usable series that begins 18 days before the range asked for
EarlyRows == MkRows(MinBars, start_date(0, DefaultDays) + 1, 104)

Responses(src) ==
    {RespError, RespMalformed, RespRows(<<>>, "float"), RespRows(ShortRows, "float"),
     RespRows(GoodRows(src), "float"), RespRows(EarlyRows, "float")}

PrimaryRows == Listing(<<"600519", "000001">>)
ListingResponses == {RespError, RespRows(<<>>, "float"), RespRows(PrimaryRows, "float")}

WriteOutcomes == {"ok", "fail", "partial"}

\* the universe file an earlier run of the program left behind: two clock
\* steps before it expires
PriorRun == 2 * TickStep - UniverseTTL

NoCall ==
    [op |-> "none", pc |-> "idle", symbol |-> "", name |-> "", at |-> 0,
     found |-> "none", age |-> 0, hit |-> FALSE, invoked |-> <<>>,
     answers |-> <<>>, got |-> <<>>, ret |-> None, wr |-> "none",
     days |-> 0, prior |-> 0]

\* nothing running in the other components
NoAnalysis == [pc |-> "idle"]
NoScreen == [pc |-> "idle"]
NoSelection == [pc |-> "idle"]
NoManager == [pc |-> "idle"]

Init ==
    /\ now = 0
    /\ stockCache = [s \in Symbols |-> NoFile]
    /\ listCache = NoFile
    /\ call = NoCall
    /\ mgr = NoManager
    /\ ma = NoAnalysis /\ scr = NoScreen /\ mf = NoSelection

InitFetcher ==
    /\ now = 0
    /\ stockCache = [s \in Symbols |-> NoFile]
    /\ listCache \in {NoFile, PickleFile(PriorRun, [kind |-> "df", rows |-> PrimaryRows])}
    /\ call = NoCall
    /\ mgr = NoManager
    /\ ma = NoAnalysis /\ scr = NoScreen /\ mf = NoSelection

Tick ==
    /\ call.pc # "sources"
    /\ now + TickStep <= MaxTime
    /\ now' = now + TickStep
    /\ UNCHANGED <<stockCache, listCache, call, ma, scr, mf, mgr>>

\* a slip: a cached series is handed out under the name of the present call
CallGetStockData_renamed(symbols, names, spans) ==
    \E symbol \in symbols, name \in names, days \in spans :
        LET file == stockCache[symbol]
            cached == CacheLookup(file, now)
        IN /\ call.pc # "sources"
           /\ call' = [op |-> "get_stock_data",
                       pc |-> IF cached # None THEN "returned" ELSE "sources",
                       symbol |-> symbol, name |-> name, at |-> now,
                       found |-> file.kind, age |-> now - file.mtime,
                       hit |-> cached # None, invoked |-> <<>>, answers |-> <<>>,
                       got |-> <<>>,
                       ret |-> IF cached # None THEN [cached EXCEPT !.name = name]
                               ELSE cached,
                       wr |-> "none", days |-> days,
                       prior |-> IF call.op = "get_stock_data" THEN call.days ELSE 0]
           /\ UNCHANGED <<now, stockCache, listCache, ma, scr, mf, mgr>>

\* get_stock_data, lines 171-188: the cache is looked up; a miss leaves the
\* call at the head of the loop over the sources.  prior keeps the days of
\* the get_stock_data call before this one
CallGetStockData(symbols, names, spans) ==
    \E symbol \in symbols, name \in names, days \in spans :
        LET file == stockCache[symbol]
            cached == CacheLookup(file, now)
        IN /\ call.pc # "sources"
           /\ call' = [op |-> "get_stock_data",
                       pc |-> IF cached # None THEN "returned" ELSE "sources",
                       symbol |-> symbol, name |-> name, at |-> now,
                       found |-> file.kind, age |-> now - file.mtime,
                       hit |-> cached # None, invoked |-> <<>>, answers |-> <<>>,
                       got |-> <<>>, ret |-> cached, wr |-> "none", days |-> days,
                       prior |-> IF call.op = "get_stock_data" THEN call.days ELSE 0]
           /\ UNCHANGED <<now, stockCache, listCache, ma, scr, mf, mgr>>

\* a slip: when the last source has failed too, the symbol's entry is removed
InvokeSource_evict ==
    /\ call.pc = "sources"
    /\ LET src == data_sources[Len(call.invoked) + 1]
       IN \E resp \in Responses(src) :
           LET df == source_func(src, resp)
               invoked == Append(call.invoked, src)
               answers == Append(call.answers, resp.kind)
               got == Append(call.got, df)
           IN IF Usable(df)
              THEN \E wr \in WriteOutcomes :
                     LET out == [df EXCEPT !.symbol = call.symbol, !.name = call.name]
                     IN /\ stockCache' =
                             [stockCache EXCEPT
                                 ![call.symbol] = to_pickle(@, out, now, wr)]
                        /\ call' = [call EXCEPT !.pc = "returned", !.invoked = invoked,
                                                !.answers = answers, !.got = got,
                                                !.ret = out, !.wr = wr]
              ELSE /\ call' = [call EXCEPT
                                  !.pc = IF Len(invoked) = Len(data_sources)
                                         THEN "returned" ELSE "sources",
                                  !.invoked = invoked, !.answers = answers,
                                  !.got = got, !.ret = None]
                   /\ stockCache' = IF Len(invoked) = Len(data_sources)
                                    THEN [stockCache EXCEPT ![call.symbol] = NoFile]
                                    ELSE stockCache
    /\ UNCHANGED <<now, listCache, ma, scr, mf, mgr>>

\* get_stock_data, lines 191-209: one turn of the loop over the sources
InvokeSource ==
    /\ call.pc = "sources"
    /\ LET src == data_sources[Len(call.invoked) + 1]
       IN \E resp \in Responses(src) :
           LET df == source_func(src, resp)
               invoked == Append(call.invoked, src)
               answers == Append(call.answers, resp.kind)
               got == Append(call.got, df)
           IN IF Usable(df)
              THEN \E wr \in WriteOutcomes :
                     LET out == [df EXCEPT !.symbol = call.symbol, !.name = call.name]
                     IN /\ stockCache' =
                             [stockCache EXCEPT
                                 ![call.symbol] = to_pickle(@, out, now, wr)]
                        /\ call' = [call EXCEPT !.pc = "returned", !.invoked = invoked,
                                                !.answers = answers, !.got = got,
                                                !.ret = out, !.wr = wr]
              ELSE /\ call' = [call EXCEPT
                                  !.pc = IF Len(invoked) = Len(data_sources)
                                         THEN "returned" ELSE "sources",
                                  !.invoked = invoked, !.answers = answers,
                                  !.got = got, !.ret = None]
                   /\ UNCHANGED stockCache
    /\ UNCHANGED <<now, listCache, ma, scr, mf, mgr>>

CallGetAllAStocks ==
    \E resp \in ListingResponses, wr \in WriteOutcomes :
        LET r == get_all_a_stocks(listCache, now, resp, wr)
        IN /\ call.pc # "sources"
           /\ listCache' = r.file
           /\ call' = [op |-> "get_all_a_stocks", pc |-> "returned", symbol |-> "",
                       name |-> "", at |-> now, found |-> listCache.kind,
                       age |-> now - listCache.mtime, hit |-> r.hit,
                       invoked |-> r.invoked, answers |-> <<resp.kind>>,
                       got |-> r.got, ret |-> r.ret, wr |-> r.wr, days |-> 0,
                       prior |-> 0]
           /\ UNCHANGED <<now, stockCache, ma, scr, mf, mgr>>

\* the series fetcher alone, for every symbol and name
Next == Tick \/ CallGetStockData(Symbols, Names, {DefaultDays}) \/ InvokeSource

Spec == Init /\ [][Next]_vars

\* the whole fetcher, series and universe, for one symbol and one name
NextFetcher ==
    \/ Tick
    \/ CallGetStockData({"600519"}, {"nameA"}, {DefaultDays})
    \/ InvokeSource
    \/ CallGetAllAStocks

SpecFetcher == InitFetcher /\ [][NextFetcher]_vars

\* the series fetcher asked for one symbol under either name, for the default
\* span of days or twice as many
NextKey ==
    \/ Tick
    \/ CallGetStockData({"600519"}, Names, {DefaultDays, 2 * DefaultDays})
    \/ InvokeSource

SpecKey == Init /\ [][NextKey]_vars

\* what the cache directory may hold for a symbol when the program starts,
\* written one clock step before: nothing, an unreadable file, an empty
\* frame, a frame one bar short, a usable frame
LeftoverSeries ==
    {NoFile, CorruptFile(-TickStep)}
        \cup {PickleFile(-TickStep, [Frame(rows, "float") EXCEPT !.symbol = "600519",
                                                                 !.name = "nameB"]) :
                 rows \in {<<>>, ShortRows, GoodRows("eastmoney")}}

\* the whole fetcher started on a cache directory that is not empty
InitCache ==
    /\ now = 0
    /\ stockCache \in {[s \in Symbols |-> IF s = "600519" THEN f ELSE NoFile] :
                          f \in LeftoverSeries}
    /\ listCache \in {NoFile, CorruptFile(PriorRun),
                      PickleFile(PriorRun, [kind |-> "df", rows |-> PrimaryRows])}
    /\ call = NoCall
    /\ mgr = NoManager
    /\ ma = NoAnalysis /\ scr = NoScreen /\ mf = NoSelection

SpecCache == InitCache /\ [][NextFetcher]_vars

----------------------------------------------------------------------------
(* Properties of the fetcher *)

\* a result that is a series of at least 20 bars
AtLeast20Bars(df) == df.kind = "df" /\ Len(df.rows) >= 20

\* the series as the adapter returned it: ret without its symbol and name
SameSeries(ret, df) == ret.kind = "df" /\ df.kind = "df" /\ ret.rows = df.rows

\* a get_stock_data call that missed the cache
SeriesMiss == call.op = "get_stock_data" /\ ~call.hit

\* C1: on a cache miss get_stock_data invokes akshare, yfinance, eastmoney in
\* that order, each only after every earlier one returned no usable series; it
\* returns the series of the first adapter that gives at least 20 bars and
\* invokes none after it; it returns None only after all three failed.
C1_FixedOrderFirstUsable ==
    SeriesMiss =>
        LET n == Len(call.invoked)
        IN /\ n <= 3 /\ Len(call.got) = n
           /\ \A k \in 1..n : call.invoked[k] = <<"akshare", "yfinance", "eastmoney">>[k]
           /\ \A k \in 1..(n - 1) : ~AtLeast20Bars(call.got[k])
           /\ call.pc = "sources" => \A k \in 1..n : ~AtLeast20Bars(call.got[k])
           /\ call.pc = "returned" =>
                 /\ n >= 1
                 /\ IF AtLeast20Bars(call.got[n])
                    THEN SameSeries(call.ret, call.got[n])
                    ELSE n = 3 /\ call.ret = None

\* C1's case: akshare failed, yfinance succeeded, eastmoney was not invoked
C1_Witness ==
    /\ SeriesMiss /\ call.pc = "returned"
    /\ call.invoked = <<"akshare", "yfinance">>
    /\ call.answers[1] = "error"
    /\ SameSeries(call.ret, Frame(GoodRows("yfinance"), "float"))

\* C2: get_stock_data never raises: whatever the adapters do (exception, empty
\* result, malformed payload, fewer than 20 bars) it returns a series or None,
\* and None when every adapter failed.
C2_NeverRaises ==
    (call.op = "get_stock_data" /\ call.pc = "returned") =>
        /\ call.ret.kind \in {"df", "none"}
        /\ (~call.hit /\ \A k \in 1..Len(call.got) : ~AtLeast20Bars(call.got[k]))
              => call.ret = None

\* C2's case: the three adapters failed in three different ways
C2_Witness ==
    /\ SeriesMiss /\ call.pc = "returned"
    /\ call.answers = <<"error", "malformed", "rows">>
    /\ call.got = <<None, None, Frame(ShortRows, "float")>>
    /\ call.ret = None

\* a step that starts the get_stock_data call following a returned one, for
\* the same symbol, less than 6 hours after it
SecondCallWithinTTL ==
    /\ call.op = "get_stock_data" /\ call.pc = "returned"
    /\ call' # call /\ call'.op = "get_stock_data"
    /\ call'.symbol = call.symbol
    /\ now - call.at < 6

\* the second call invokes no adapter and returns what the first returned
SecondCallIsHit == call'.pc = "returned" /\ call'.invoked = <<>> /\ call'.ret = call.ret

\* C3 as stated: of two consecutive get_stock_data calls for one symbol within
\* 6 hours, the second invokes no adapter and returns the first one's series.
C3_Original == [][SecondCallWithinTTL => SecondCallIsHit]_fetcherVars

\* C3 amended: if moreover the first call returned a series that the cache
\* holds after it (it was a hit itself, or its write succeeded) and the second
\* call comes less than 6 hours after that cache entry was written, the second
\* call invokes no adapter and returns the identical series.
C3_Amended ==
    [][(/\ SecondCallWithinTTL
        /\ call.ret.kind = "df"
        /\ stockCache[call.symbol].kind = "pickle"
        /\ stockCache[call.symbol].df = call.ret
        /\ now - stockCache[call.symbol].mtime < 6) => SecondCallIsHit]_fetcherVars

\* C3's case: a call answered from an entry that an earlier call wrote some
\* hours before, with that call's name
C3_Witness ==
    /\ call.op = "get_stock_data" /\ call.pc = "returned" /\ call.invoked = <<>>
    /\ call.age > 0 /\ call.age < 6
    /\ call.ret = stockCache[call.symbol].df
    /\ call.ret.kind = "df" /\ call.ret.name # call.name

\* the time to live of the entry the last call looked up
TTLOf(op) == IF op = "get_stock_data" THEN 6 ELSE 24

\* C4: a cache entry whose age is not below its time to live (6 hours for a
\* series, 24 for the universe) is never returned; with a stale series entry
\* and every adapter failing, get_stock_data returns None.
C4_StaleNeverReturned ==
    call.pc = "returned" =>
        /\ (call.invoked = <<>> /\ call.ret.kind = "df")
              => (call.found # "none" /\ call.age < TTLOf(call.op))
        /\ (/\ call.op = "get_stock_data" /\ call.found # "none" /\ call.age >= 6
            /\ \A k \in 1..Len(call.got) : ~AtLeast20Bars(call.got[k]))
              => call.ret = None

\* C4's case: the symbol's only entry is a readable series exactly 6 hours
\* old, all three adapters fail, and the call returns None
C4_Witness ==
    /\ call.op = "get_stock_data" /\ call.pc = "returned"
    /\ call.found = "pickle" /\ call.age = 6
    /\ stockCache[call.symbol].kind = "pickle"
    /\ Len(call.invoked) = 3 /\ call.ret = None

\* a get_all_a_stocks call that missed the cache and whose primary listing
\* raised or came back empty
PrimaryFailed ==
    /\ call.op = "get_all_a_stocks" /\ ~call.hit
    /\ (call.answers[1] = "error" \/ call.got[1].rows = <<>>)

\* C5: when the primary listing raises or is empty, get_all_a_stocks falls
\* back to the local list and then the basic list and returns a non-empty
\* universe without raising.
C5_FallbackNonEmpty ==
    PrimaryFailed => (call.ret.kind = "df" /\ call.ret.rows # <<>>)

\* C6: a cache write that fails does not fail the call: get_stock_data and
\* get_all_a_stocks still return the payload they fetched.
C6_WritesBestEffort ==
    (call.pc = "returned" /\ call.wr \in {"fail", "partial"}) =>
        /\ call.ret.kind = "df"
        /\ call.ret.rows = call.got[Len(call.got)].rows

\* a step that starts a get_stock_data call
StartsSeriesCall ==
    call' # call /\ call'.op = "get_stock_data" /\ call'.invoked = <<>>

\* the entry of the symbol being asked for is within its TTL and readable
\* but holds no bar or fewer than 20
FreshButShort ==
    LET file == stockCache[call'.symbol]
    IN /\ file.kind = "pickle"
       /\ now - file.mtime < 6
       /\ Len(file.df.rows) < 20

\* C17: a series cache entry within its TTL that is empty or holds fewer than
\* 20 bars is treated as absent: get_stock_data does not return it and goes
\* on to the source adapters.
C17_ShortEntryIsAbsent ==
    [][(StartsSeriesCall /\ FreshButShort)
          => (call'.pc = "sources" /\ ~call'.hit /\ call'.ret = None)]_vars

\* C17's case: a call that found a readable entry 3 hours old, missed, went
\* to the adapters and returned the series akshare gave, while the entry,
\* whose rewrite failed, still holds its 19 bars
C17_Witness ==
    /\ call.op = "get_stock_data" /\ call.pc = "returned"
    /\ call.found = "pickle" /\ call.age = 3 /\ ~call.hit
    /\ call.invoked = <<"akshare">> /\ call.wr = "fail"
    /\ call.ret.kind = "df" /\ call.ret.rows = GoodRows("akshare")
    /\ stockCache[call.symbol].kind = "pickle"
    /\ stockCache[call.symbol].df.rows = ShortRows

\* what the providers may answer to one get_stock_data call
AnswerSets ==
    {f \in [{"akshare", "yfinance", "eastmoney"} ->
               UNION {Responses(src) : src \in {"akshare", "yfinance", "eastmoney"}}] :
        \A src \in DOMAIN f : f[src] \in Responses(src)}

\* the returned series call went as a call on an empty cache goes
SeriesAsOnMiss ==
    \E resps \in AnswerSets :
        LET m == get_stock_data(NoFile, call.at, call.symbol, call.name, resps, call.wr)
        IN ~m.hit /\ m.ret = call.ret /\ m.invoked = call.invoked /\ m.got = call.got

\* the universe call went as a call on an empty cache goes
UniverseAsOnMiss ==
    \E resp \in ListingResponses :
        LET m == get_all_a_stocks(NoFile, call.at, resp, call.wr)
        IN ~m.hit /\ m.ret = call.ret /\ m.invoked = call.invoked /\ m.got = call.got

C31_KeyedBySymbolOnly ==
    [][StartsSeriesCall =>
          LET file == stockCache[call'.symbol]
          IN (/\ file.kind = "pickle" /\ now - file.mtime < 6
              /\ Len(file.df.rows) >= 20)
                 => /\ call'.hit /\ call'.pc = "returned"
                    /\ call'.ret = file.df
                    /\ stockCache' = stockCache]_vars

\* C31's case: a call for twice the default span, under another name, right
\* after a call for the default span, is answered from the entry some hours
\* old
C31_Witness ==
    /\ call.op = "get_stock_data" /\ call.pc = "returned" /\ call.hit
    /\ call.days = 2 * DefaultDays /\ call.prior = DefaultDays
    /\ call.age > 0 /\ call.age < 6
    /\ call.ret = stockCache[call.symbol].df
    /\ call.ret.name # call.name

\* C32: the series cache changes only in the step in which get_stock_data
\* returns a fetched series, and only at that call's symbol, where the series
\* returned is written (or, the write breaking off, an unreadable file); a
\* call in which every adapter fails leaves each entry as it was, be it
\* stale, unreadable or too short.
C32_WritesOnlyWhatItReturns ==
    [][/\ stockCache' # stockCache =>
              /\ call.op = "get_stock_data" /\ call.pc = "sources"
              /\ call'.pc = "returned" /\ call'.ret.kind = "df"
              /\ \A s \in Symbols \ {call.symbol} : stockCache'[s] = stockCache[s]
              /\ stockCache'[call.symbol] \in {PickleFile(now, call'.ret), CorruptFile(now)}
       /\ (call'.op = "get_stock_data" /\ call'.pc = "returned" /\ call'.ret.kind # "df")
              => stockCache' = stockCache]_vars

\* C32's case: all three adapters failed and the symbol's entry, a frame one
\* bar short left by an earlier run, is still there
C32_Witness ==
    /\ call.op = "get_stock_data" /\ call.pc = "returned"
    /\ Len(call.invoked) = 3 /\ call.ret.kind = "none"
    /\ call.found = "pickle"
    /\ stockCache[call.symbol].kind = "pickle"
    /\ stockCache[call.symbol].mtime = -TickStep
    /\ stockCache[call.symbol].df.rows = ShortRows

\* the rows are in ascending order of date
SortedByDate(rows) == \A j \in 1..(Len(rows) - 1) : rows[j].date <= rows[j + 1].date

\* every row is dated inside lo..hi
ClippedTo(rows, lo, hi) == \A j \in 1..Len(rows) : rows[j].date \in lo..hi

\* C26: every series an adapter returns has exactly the canonical columns
\* indexed by date, is sorted by date ascending and holds only bars inside the
\* requested range start_date..end_date, whatever the provider answered.
C26_AdaptersCanonical ==
    call.op = "get_stock_data" =>
        \A k \in 1..Len(call.got) :
            call.got[k].kind = "df" =>
                /\ \A j \in 1..Len(call.got[k].rows) :
                       DOMAIN call.got[k].rows[j] = {"date", "close"}
                /\ SortedByDate(call.got[k].rows)
                /\ ClippedTo(call.got[k].rows, start_date(call.at, call.days),
                            end_date(call.at))

\* a step that starts a get_all_a_stocks call
StartsUniverseCall == call' # call /\ call'.op = "get_all_a_stocks"

\* the call that starts returns df from the cache and asks no provider
UniverseHit(df) == call'.hit /\ call'.invoked = <<>> /\ call'.ret = df

\* C25: get_all_a_stocks is cache-first: a readable universe entry younger
\* than 24 hours is returned and no listing provider is asked; a call that
\* missed and returned a universe has written it to the cache, so the next
\* call within 24 hours is a hit that returns the same universe.
C25_UniverseCacheFirst ==
    [][StartsUniverseCall =>
          /\ (listCache.kind = "pickle" /\ now - listCache.mtime < 24)
                => (UniverseHit(listCache.df) /\ listCache' = listCache)
          /\ (~call'.hit /\ call'.ret.kind = "df")
                => listCache' = PickleFile(now, call'.ret)
          /\ (/\ call.op = "get_all_a_stocks" /\ call.pc = "returned"
              /\ ~call.hit /\ call.ret.kind = "df" /\ now - call.at < 24)
                => UniverseHit(call.ret)]_vars

\* C25's case: a call answered from the entry that an earlier call wrote
\* after asking the primary provider
C25_Witness ==
    /\ call.op = "get_all_a_stocks" /\ call.pc = "returned"
    /\ call.hit /\ call.invoked = <<>> /\ call.age > 0
    /\ listCache = PickleFile(call.at - call.age, call.ret)
    /\ listCache.mtime >= 0

----------------------------------------------------------------------------
(* MovingAverageAnalyzer *)

\* bounds of the analyzer's inputs
MaxBars == 5
MaxLookback == 2

RECURSIVE InsertPeriod(_, _)
InsertPeriod(w, s) ==
    IF s = <<>> \/ s[Len(s)] <= w THEN Append(s, w)
    ELSE Append(InsertPeriod(w, SubSeq(s, 1, Len(s) - 1)), s[Len(s)])

\* a slip: the configured list kept in the order given
sorted_asGiven(cfg) == cfg

\* __init__: self.ma_periods = sorted(ma_periods)
RECURSIVE sorted(_)
sorted(cfg) ==
    IF cfg = <<>> THEN <<>>
    ELSE InsertPeriod(cfg[Len(cfg)], sorted(SubSeq(cfg, 1, Len(cfg) - 1)))

\* __init__: self.fast_ma = self.ma_periods[0]
fast_ma(ma_periods) == ma_periods[1]

RECURSIVE SumClose(_, _, _)
SumClose(rows, lo, hi) ==
    IF lo > hi THEN 0 ELSE rows[hi].close + SumClose(rows, lo, hi - 1)

\* a slip: min_periods left at its default, the window length, so the mean
\* is NaN (no bar counted) until w bars are available
RollingMean_fullWindow(rows, w, i) ==
    IF i < w THEN [sum |-> 0, cnt |-> 0]
    ELSE [sum |-> SumClose(rows, i - w + 1, i), cnt |-> w]

\* rolling(window=w, min_periods=1).mean() at row i, as the exact fraction
\* sum / cnt over the rows that exist in the window
RollingMean(rows, w, i) ==
    LET lo == IF i - w + 1 < 1 THEN 1 ELSE i - w + 1
    IN [sum |-> SumClose(rows, lo, i), cnt |-> i - lo + 1]

\* comparisons of two such fractions (cnt > 0)
MeanGT(a, b) == a.sum * b.cnt > b.sum * a.cnt
MeanLE(a, b) == a.sum * b.cnt <= b.sum * a.cnt

\* round(x, 2) of a fraction, in hundredths
Round2(a) == (200 * a.sum + a.cnt) \div (2 * a.cnt)

\* calculate_moving_averages: a copy of the frame with one MA column per
\* period; the rolling mean of a non-numeric close column raises
calculate_moving_averages(df, ma_periods) ==
    IF df.dtype # "float" THEN Raise("DataError")
    ELSE [kind |-> "df", rows |-> df.rows, dtype |-> df.dtype,
          symbol |-> df.symbol, name |-> df.name,
          MA |-> [w \in {ma_periods[k] : k \in 1..Len(ma_periods)} |->
                     [i \in 1..Len(df.rows) |-> RollingMean(df.rows, w, i)]]]

\* a slip: a gap of exactly 2% already counts as strong
_calculate_signal_strength_inclusive(fast, slow) ==
    IF slow.sum = 0 THEN "weak"
    ELSE IF 100 * fast.sum * slow.cnt >= 102 * slow.sum * fast.cnt THEN "strong"
    ELSE IF 100 * fast.sum * slow.cnt > 101 * slow.sum * fast.cnt THEN "moderate"
    ELSE "weak"

\* the labels of _calculate_signal_strength are, in the source, the Chinese
\* words for strong, moderate and weak
_calculate_signal_strength(fast, slow) ==
    IF slow.sum = 0 THEN "weak"
    ELSE IF 100 * fast.sum * slow.cnt > 102 * slow.sum * fast.cnt THEN "strong"
    ELSE IF 100 * fast.sum * slow.cnt > 101 * slow.sum * fast.cnt THEN "moderate"
    ELSE "weak"

\* the crossing test of find_crossovers with the previous day's comparison
\* made strict
Crosses_strictPrev(df_ma, fast, slow, p) ==
    /\ MeanGT(df_ma.MA[fast][p], df_ma.MA[slow][p])
    /\ MeanGT(df_ma.MA[slow][p - 1], df_ma.MA[fast][p - 1])

\* the crossing test of find_crossovers at row p
Crosses(df_ma, fast, slow, p) ==
    /\ MeanGT(df_ma.MA[fast][p], df_ma.MA[slow][p])
    /\ MeanLE(df_ma.MA[fast][p - 1], df_ma.MA[slow][p - 1])

Crossover(df_ma, fast, slow, p) ==
    [date |-> df_ma.rows[p].date,
     fast_ma |-> fast, slow_ma |-> slow,
     fast_ma_value |-> Round2(df_ma.MA[fast][p]),
     slow_ma_value |-> Round2(df_ma.MA[slow][p]),
     close_price |-> 100 * df_ma.rows[p].close,
     signal_strength |-> _calculate_signal_strength(df_ma.MA[fast][p], df_ma.MA[slow][p])]

\* a slip: one event per bar, the loop left at the first slow window crossed
RECURSIVE SlowLoop_firstOnly(_, _, _, _)
SlowLoop_firstOnly(df_ma, ma_periods, p, k) ==
    IF k > Len(ma_periods) THEN <<>>
    ELSE IF Crosses(df_ma, fast_ma(ma_periods), ma_periods[k], p)
    THEN <<Crossover(df_ma, fast_ma(ma_periods), ma_periods[k], p)>>
    ELSE SlowLoop_firstOnly(df_ma, ma_periods, p, k + 1)

\* the inner loop: for slow_ma in self.ma_periods[1:], from index k on
RECURSIVE SlowLoop(_, _, _, _)
SlowLoop(df_ma, ma_periods, p, k) ==
    IF k > Len(ma_periods) THEN <<>>
    ELSE (IF Crosses(df_ma, fast_ma(ma_periods), ma_periods[k], p)
          THEN <<Crossover(df_ma, fast_ma(ma_periods), ma_periods[k], p)>>
          ELSE <<>>)
         \o SlowLoop(df_ma, ma_periods, p, k + 1)

\* the outer loop: for i in range(cnt), idx = -1 - i, from i on
RECURSIVE DayLoop(_, _, _, _)
DayLoop(df_ma, ma_periods, i, cnt) ==
    IF i >= cnt THEN <<>>
    ELSE LET p == Len(df_ma.rows) - i
         IN (IF p - 1 < 1 THEN <<>> ELSE SlowLoop(df_ma, ma_periods, p, 2))
            \o DayLoop(df_ma, ma_periods, i + 1, cnt)

\* find_crossovers guarding on the fastest window instead of the slowest
find_crossovers_fastGuard(df_ma, ma_periods, lookback_days) ==
    LET n == Len(df_ma.rows)
    IN IF n < ma_periods[1] + lookback_days THEN <<>>
       ELSE DayLoop(df_ma, ma_periods, 0,
                    IF lookback_days < n - 1 THEN lookback_days ELSE n - 1)

find_crossovers(df_ma, ma_periods, lookback_days) ==
    LET n == Len(df_ma.rows)
    IN IF n < ma_periods[Len(ma_periods)] + lookback_days THEN <<>>
       ELSE DayLoop(df_ma, ma_periods, 0,
                    IF lookback_days < n - 1 THEN lookback_days ELSE n - 1)

\* the analyzer's inputs: close prices, configured periods, lookback
CloseValues == {100, 101, 103, 110}
CloseSeqs == UNION {[1..n -> CloseValues] : n \in 0..MaxBars}
PeriodConfigs == {<<1, 2>>, <<2, 1, 3>>, <<1, 3, 2>>, <<3, 2>>}

\* a sorted daily frame with the given closes
FrameOfCloses(close) ==
    Frame([i \in 1..Len(close) |-> [date |-> i, close |-> close[i]]], "float")

InitMA ==
    /\ now = 0
    /\ stockCache = [s \in Symbols |-> NoFile]
    /\ listCache = NoFile
    /\ call = NoCall
    /\ mgr = NoManager
    /\ scr = NoScreen /\ mf = NoSelection
    /\ ma \in {[pc |-> "input", close |-> c, configured |-> g,
                ma_periods |-> sorted(g), lookback_days |-> l, df_ma |-> None, crossovers |-> <<>>] :
                  c \in CloseSeqs, g \in PeriodConfigs, l \in 0..MaxLookback}

CalculateMovingAverages ==
    /\ ma.pc = "input"
    /\ ma' = [ma EXCEPT !.pc = "averaged",
                        !.df_ma = calculate_moving_averages(FrameOfCloses(ma.close),
                                                            ma.ma_periods)]
    /\ UNCHANGED <<now, stockCache, listCache, call, scr, mf, mgr>>

FindCrossovers ==
    /\ ma.pc = "averaged"
    /\ ma' = [ma EXCEPT !.pc = "done",
                        !.crossovers = find_crossovers(ma.df_ma, ma.ma_periods,
                                                       ma.lookback_days)]
    /\ UNCHANGED <<now, stockCache, listCache, call, scr, mf, mgr>>

NextMA == CalculateMovingAverages \/ FindCrossovers

SpecMA == InitMA /\ [][NextMA]_vars

\* _calculate_signal_strength on its own: a fast and a slow average, each the
\* sum of one or two closes over their number; the slow one may be 0
StrengthInputs ==
    {[sum |-> n, cnt |-> c] : n \in {0, 100, 101, 102, 103, 201, 203, 204, 205},
                              c \in {1, 2}}

InitStrength ==
    /\ now = 0
    /\ stockCache = [s \in Symbols |-> NoFile]
    /\ listCache = NoFile
    /\ call = NoCall
    /\ mgr = NoManager
    /\ scr = NoScreen /\ mf = NoSelection
    /\ ma \in {[pc |-> "input", fast |-> f, slow |-> w, label |-> ""] :
                  f \in StrengthInputs, w \in StrengthInputs}

SignalStrength ==
    /\ ma.pc = "input"
    /\ ma' = [ma EXCEPT !.pc = "labelled",
                        !.label = _calculate_signal_strength(ma.fast, ma.slow)]
    /\ UNCHANGED <<now, stockCache, listCache, call, scr, mf, mgr>>

SpecStrength == InitStrength /\ [][SignalStrength]_vars

----------------------------------------------------------------------------
(* Properties of the analyzer *)

\* the sum of close[lo..hi]
RECURSIVE SeqSum(_, _, _)
SeqSum(c, lo, hi) == IF lo > hi THEN 0 ELSE c[lo] + SeqSum(c, lo + 1, hi)

\* the w-day average at bar p, as sum and count of the bars available
AvgSum(c, w, p) == SeqSum(c, IF p - w + 1 < 1 THEN 1 ELSE p - w + 1, p)
AvgCnt(w, p) == IF p < w THEN p ELSE w

\* fast average above / at or below the slow average at bar p
Above(c, f, s, p) == AvgSum(c, f, p) * AvgCnt(s, p) > AvgSum(c, s, p) * AvgCnt(f, p)
AtOrBelow(c, f, s, p) == AvgSum(c, f, p) * AvgCnt(s, p) <= AvgSum(c, s, p) * AvgCnt(f, p)

\* the crossovers reported for bar p and slow window s
Reported(p, s) ==
    {k \in 1..Len(ma.crossovers) :
        ma.crossovers[k].date = p /\ ma.crossovers[k].slow_ma = s}

\* the bars find_crossovers examines: the last lookback_days bars of a history
\* long enough, none otherwise
Examined ==
    LET n == Len(ma.close)
    IN IF n < ma.ma_periods[Len(ma.ma_periods)] + ma.lookback_days THEN {}
       ELSE {p \in 1..n : p > n - ma.lookback_days}

\* the slow windows whose crossing condition holds on bar p
CrossedOn(p) ==
    {w \in {ma.ma_periods[k] : k \in 2..Len(ma.ma_periods)} :
        /\ Above(ma.close, ma.ma_periods[1], w, p)
        /\ AtOrBelow(ma.close, ma.ma_periods[1], w, p - 1)}

\* the events reported with date p
EventsOn(p) == {k \in 1..Len(ma.crossovers) : ma.crossovers[k].date = p}

\* C28: when k different slow windows cross on one examined bar,
\* find_crossovers reports exactly k events with that date, one per slow
\* window; no two events share both date and slow window.
C28_OneEventPerSlowWindow ==
    ma.pc = "done" =>
        /\ \A p \in Examined :
               /\ Cardinality(EventsOn(p)) = Cardinality(CrossedOn(p))
               /\ {ma.crossovers[k].slow_ma : k \in EventsOn(p)} = CrossedOn(p)
        /\ \A j, k \in 1..Len(ma.crossovers) :
               (/\ ma.crossovers[j].date = ma.crossovers[k].date
                /\ ma.crossovers[j].slow_ma = ma.crossovers[k].slow_ma) => j = k

\* C28's case: the 1-day average crosses the 2-day and the 3-day average on
\* the last bar, and two events carry that date
C28_Witness ==
    /\ ma.pc = "done" /\ ma.ma_periods = <<1, 2, 3>>
    /\ CrossedOn(Len(ma.close)) = {2, 3}
    /\ Len(ma.crossovers) = 2
    /\ ma.crossovers[1].date = Len(ma.close) /\ ma.crossovers[1].slow_ma = 2
    /\ ma.crossovers[2].date = Len(ma.close) /\ ma.crossovers[2].slow_ma = 3

\* C27: for every configured window w and every bar i the average column of
\* calculate_moving_averages holds the mean of close over the bars
\* max(first, i - w + 1)..i; it is defined at every bar, also before w bars
\* are available, and the closes given are the closes of the result.
C27_LenientRollingMean ==
    (ma.pc \in {"averaged", "done"}) =>
        /\ ma.df_ma.kind = "df"
        /\ ma.df_ma.rows = FrameOfCloses(ma.close).rows
        /\ DOMAIN ma.df_ma.MA = {ma.ma_periods[k] : k \in 1..Len(ma.ma_periods)}
        /\ \A w \in DOMAIN ma.df_ma.MA :
               /\ DOMAIN ma.df_ma.MA[w] = 1..Len(ma.close)
               /\ \A i \in 1..Len(ma.close) :
                      /\ ma.df_ma.MA[w][i].cnt = AvgCnt(w, i)
                      /\ ma.df_ma.MA[w][i].cnt > 0
                      /\ ma.df_ma.MA[w][i].sum = AvgSum(ma.close, w, i)

\* C27's case: the 3-day average of the second bar is the mean of the first
\* two closes, and from the third bar on the mean of three
C27_Witness ==
    /\ ma.pc = "averaged" /\ ma.close = <<100, 103, 110, 101>>
    /\ ma.ma_periods = <<1, 2, 3>>
    /\ ma.df_ma.MA[3][2] = [sum |-> 203, cnt |-> 2]
    /\ ma.df_ma.MA[3][4] = [sum |-> 314, cnt |-> 3]

\* C8: for every examined bar and slow window, find_crossovers reports a
\* crossover exactly when the fast average is strictly above the slow average
\* on that bar and at or below it on the bar before (equality on the earlier
\* bar followed by a break above counts; equality on the bar itself does not),
\* and it reports nothing else.
C8_CrossoverIffCondition ==
    ma.pc = "done" =>
        LET f == ma.ma_periods[1]
            slows == {ma.ma_periods[k] : k \in 2..Len(ma.ma_periods)}
        IN /\ \A p \in Examined : \A s \in slows :
                  IF Above(ma.close, f, s, p) /\ AtOrBelow(ma.close, f, s, p - 1)
                  THEN Cardinality(Reported(p, s)) = 1
                  ELSE Reported(p, s) = {}
           /\ \A k \in 1..Len(ma.crossovers) :
                  /\ ma.crossovers[k].date \in Examined
                  /\ ma.crossovers[k].slow_ma \in slows
                  /\ ma.crossovers[k].fast_ma = f

\* a crossover reported where the two averages were equal on the bar before,
\* next to an examined bar where they are equal and nothing is reported
C8_Witness ==
    /\ ma.pc = "done"
    /\ \E k \in 1..Len(ma.crossovers) :
           LET e == ma.crossovers[k]
           IN AvgSum(ma.close, e.fast_ma, e.date - 1) * AvgCnt(e.slow_ma, e.date - 1)
                  = AvgSum(ma.close, e.slow_ma, e.date - 1) * AvgCnt(e.fast_ma, e.date - 1)

\* the window lengths as configured, and the smallest of them
ConfiguredLengths == {ma.configured[k] : k \in 1..Len(ma.configured)}
SmallestConfigured == CHOOSE w \in ConfiguredLengths : \A v \in ConfiguredLengths : w <= v

\* C37: the fast average used by find_crossovers is the smallest configured
\* window length whatever the order of the configuration, every other
\* configured length is used as a slow window, and every reported event has
\* fast window <= slow window.
C37_FastIsSmallestConfigured ==
    ma.pc = "done" =>
        /\ \A k \in 1..Len(ma.crossovers) :
               /\ ma.crossovers[k].fast_ma = SmallestConfigured
               /\ ma.crossovers[k].slow_ma \in ConfiguredLengths \ {SmallestConfigured}
               /\ ma.crossovers[k].fast_ma <= ma.crossovers[k].slow_ma
        /\ \A p \in Examined : \A s \in ConfiguredLengths \ {SmallestConfigured} :
               (Above(ma.close, SmallestConfigured, s, p)
                  /\ AtOrBelow(ma.close, SmallestConfigured, s, p - 1))
                   => Reported(p, s) # {}

\* C37's case: a configuration whose first length is not its smallest, and
\* events reported on one bar for both of the other lengths
C37_Witness ==
    /\ ma.pc = "done" /\ ma.configured = <<2, 1, 3>>
    /\ \E p \in Examined : \A s \in {2, 3} :
           \E k \in 1..Len(ma.crossovers) :
               /\ ma.crossovers[k].date = p /\ ma.crossovers[k].slow_ma = s
               /\ ma.crossovers[k].fast_ma = 1

\* gap = (fast - slow) / slow * 100 compared with a whole number of percent,
\* for slow > 0: gap > pct, gap = pct
GapAbove(pct) ==
    100 * (ma.fast.sum * ma.slow.cnt - ma.slow.sum * ma.fast.cnt)
        > pct * ma.slow.sum * ma.fast.cnt
GapIs(pct) ==
    100 * (ma.fast.sum * ma.slow.cnt - ma.slow.sum * ma.fast.cnt)
        = pct * ma.slow.sum * ma.fast.cnt

\* C22: the label is strong iff gap > 2, moderate iff 1 < gap <= 2 and weak
\* otherwise, so that a gap of exactly 2 is moderate and a gap of exactly 1
\* is weak; a slow average of 0 gives weak.
C22_StrengthByGap ==
    ma.pc = "labelled" =>
        IF ma.slow.sum = 0 THEN ma.label = "weak"
        ELSE /\ ma.label = "strong" <=> GapAbove(2)
             /\ ma.label = "moderate" <=> (GapAbove(1) /\ ~GapAbove(2))
             /\ ma.label = "weak" <=> ~GapAbove(1)
             /\ GapIs(2) => ma.label = "moderate"
             /\ GapIs(1) => ma.label = "weak"

\* C22's case: a fast average of 102 over a slow average of 100, a gap of
\* exactly 2%, labelled moderate
C22_Witness ==
    /\ ma.pc = "labelled"
    /\ ma.fast = [sum |-> 204, cnt |-> 2] /\ ma.slow = [sum |-> 100, cnt |-> 1]
    /\ GapIs(2)
    /\ ma.label = "moderate"

\* the longest and the shortest configured window
LongestWindow == CHOOSE m \in {ma.ma_periods[k] : k \in 1..Len(ma.ma_periods)} :
                     \A k \in 1..Len(ma.ma_periods) : ma.ma_periods[k] <= m
ShortestWindow == CHOOSE m \in {ma.ma_periods[k] : k \in 1..Len(ma.ma_periods)} :
                      \A k \in 1..Len(ma.ma_periods) : ma.ma_periods[k] >= m

\* C16: find_crossovers returns no event for a series shorter than the
\* longest window plus lookback_days, and so none for a series shorter than
\* the shortest window plus lookback_days, whatever the prices are.
C16_ShortSeriesNoEvents ==
    ma.pc = "done" =>
        /\ Len(ma.close) < LongestWindow + ma.lookback_days => ma.crossovers = <<>>
        /\ Len(ma.close) < ShortestWindow + ma.lookback_days => ma.crossovers = <<>>

\* a series long enough for the shortest window but not for the longest,
\* whose last bar is inside the lookback and has the fast average break above
\* a slow one: nothing is reported
C16_Witness ==
    /\ ma.pc = "done"
    /\ Len(ma.close) < LongestWindow + ma.lookback_days
    /\ Len(ma.close) >= ShortestWindow + ma.lookback_days
    /\ ma.lookback_days >= 1 /\ Len(ma.close) >= 2
    /\ \E k \in 2..Len(ma.ma_periods) :
           /\ Above(ma.close, ma.ma_periods[1], ma.ma_periods[k], Len(ma.close))
           /\ AtOrBelow(ma.close, ma.ma_periods[1], ma.ma_periods[k], Len(ma.close) - 1)
    /\ ma.crossovers = <<>>

----------------------------------------------------------------------------
(* StockScreener.screen_stocks *)

\* MovingAverageAnalyzer's default periods, and screen_stocks' defaults
DefaultPeriods == <<5, 10, 20, 30, 60>>
DefaultLookback == 3
MinDataDays == 60

\* an optional integer argument
SomeInt(n) == [kind |-> "int", val |-> n]

\* "if max_stocks:" is false for None and for 0
Truthy(v) == v.kind = "int" /\ v.val # 0

\* all_stocks.head(n), n >= 0
head(rows, n) == SubSeq(rows, 1, IF n < Len(rows) THEN n ELSE Len(rows))

\* the code point of the first character of a strength label as the source
\* spells it: strong U+5F3A, weak U+5F31, moderate U+4E2D
LabelKey(label) ==
    CASE label = "strong" -> 24378
      [] label = "weak" -> 24369
      [] OTHER -> 20013

\* sort_values([date, strength], ascending=[False, False]): row a is placed
\* before row b
Before(a, b) ==
    \/ a.date > b.date
    \/ a.date = b.date /\ LabelKey(a.signal_strength) > LabelKey(b.signal_strength)

\* a stable sort: r goes behind every row that is not behind it
RECURSIVE InsertResult(_, _)
InsertResult(r, s) ==
    IF s = <<>> \/ ~Before(r, s[Len(s)]) THEN Append(s, r)
    ELSE Append(InsertResult(r, SubSeq(s, 1, Len(s) - 1)), s[Len(s)])

RECURSIVE sort_values(_)
sort_values(rows) ==
    IF rows = <<>> THEN <<>>
    ELSE InsertResult(rows[Len(rows)], sort_values(SubSeq(rows, 1, Len(rows) - 1)))

\* a slip: only the first crossover of a symbol makes a row
ResultRows_firstOnly(symbol, name, df, crossovers) ==
    [k \in 1..(IF crossovers = <<>> THEN 0 ELSE 1) |->
        [symbol |-> symbol, name |-> name,
         date |-> crossovers[k].date,
         slow_ma |-> crossovers[k].slow_ma,
         close_price |-> crossovers[k].close_price,
         fast_ma_value |-> crossovers[k].fast_ma_value,
         slow_ma_value |-> crossovers[k].slow_ma_value,
         signal_strength |-> crossovers[k].signal_strength,
         days |-> Len(df.rows)]]

\* lines 501-513: one result row per crossover
ResultRows(symbol, name, df, crossovers) ==
    [k \in 1..Len(crossovers) |->
        [symbol |-> symbol, name |-> name,
         date |-> crossovers[k].date,
         slow_ma |-> crossovers[k].slow_ma,
         close_price |-> crossovers[k].close_price,
         fast_ma_value |-> crossovers[k].fast_ma_value,
         slow_ma_value |-> crossovers[k].slow_ma_value,
         signal_strength |-> crossovers[k].signal_strength,
         days |-> Len(df.rows)]]

\* a slip: every frame that was fetched is analysed, however short
AnalyseSymbol_anyLength(symbol, name, df, ma_periods, lookback_days, min_data_days) ==
    IF df.kind = "df"
    THEN LET df_ma == calculate_moving_averages(df, ma_periods)
         IN IF df_ma.kind = "raise" THEN df_ma
            ELSE [kind |-> "rows",
                  rows |-> ResultRows(symbol, name, df,
                                      find_crossovers(df_ma, ma_periods, lookback_days))]
    ELSE [kind |-> "rows", rows |-> <<>>]

\* lines 493-513: the analysis of one fetched frame: the rows it adds to
\* results, or the exception it raises
AnalyseSymbol(symbol, name, df, ma_periods, lookback_days, min_data_days) ==
    IF df.kind = "df" /\ Len(df.rows) >= min_data_days
    THEN LET df_ma == calculate_moving_averages(df, ma_periods)
         IN IF df_ma.kind = "raise" THEN df_ma
            ELSE [kind |-> "rows",
                  rows |-> ResultRows(symbol, name, df,
                                      find_crossovers(df_ma, ma_periods, lookback_days))]
    ELSE [kind |-> "rows", rows |-> <<>>]

\* what the three providers answer for one symbol during a screening run
OnlyFrom(src, resp) ==
    [s \in {"akshare", "yfinance", "eastmoney"} |-> IF s = src THEN resp ELSE RespError]

\* 63 bars: 200 at first, 100 over the last twelve, 110 on the last: the
\* 5-day average breaks above the 10-day average on the last bar and stays
\* below the slower ones
OneCrossRows ==
    [i \in 1..(MinDataDays + 3) |->
        [date |-> 50 - (MinDataDays + 3) + i,
         close |-> IF i = MinDataDays + 3 THEN 110
                   ELSE IF i > MinDataDays - 9 THEN 100 ELSE 200]]

\* histories of 59, 62 and 63 bars at 100 whose last bar closes at tail, and
\* the history that crosses once
ScreenFrames ==
    {MkRows(MinDataDays - 1, 50, 110), MkRows(MinDataDays + 2, 50, 110), OneCrossRows}
        \cup {MkRows(MinDataDays + 3, last, tail) :
                 last \in {50, 51}, tail \in {100, 110, 120}}

ScreenAnswers ==
    {OnlyFrom("akshare", RespError)}
        \cup {OnlyFrom("akshare", RespRows(rows, "float")) : rows \in ScreenFrames}
        \cup {OnlyFrom("akshare", RespRows(MkRows(MinDataDays + 3, 50, 110), "object")),
              OnlyFrom("yfinance", RespRows(MkRows(MinDataDays + 3, 51, 120), "float"))}

\* no cap, a cap of nothing, a cap below the universe's size and one above it
MaxStocksArgs == {None, SomeInt(0), SomeInt(1), SomeInt(3)}

\* the default minimum history, and one above the longest history fetched
MinDataDaysArgs == {MinDataDays, MinDataDays + 4}

InitScreen ==
    /\ now = 0
    /\ stockCache = [s \in Symbols |-> NoFile]
    /\ listCache \in {NoFile, PickleFile(PriorRun, [kind |-> "df", rows |-> PrimaryRows])}
    /\ call = NoCall
    /\ mgr = NoManager
    /\ ma = NoAnalysis /\ mf = NoSelection
    /\ scr = NoScreen

\* lines 471-483: fetch the universe, cut it to max_stocks
ScreenStart ==
    /\ scr.pc = "idle"
    /\ \E max_stocks \in MaxStocksArgs, min_data_days \in MinDataDaysArgs,
          resp \in ListingResponses, wr \in WriteOutcomes :
           LET r == get_all_a_stocks(listCache, now, resp, wr)
               all_stocks == IF r.ret.kind # "df" THEN <<>>
                             ELSE IF Truthy(max_stocks)
                             THEN head(r.ret.rows, max_stocks.val)
                             ELSE r.ret.rows
           IN /\ listCache' = r.file
              /\ scr' = [pc |-> IF r.ret.kind = "raise" THEN "raised"
                                ELSE IF all_stocks = <<>> THEN "sort" ELSE "loop",
                         max_stocks |-> max_stocks,
                         lookback_days |-> DefaultLookback,
                         min_data_days |-> min_data_days,
                         universe |-> IF r.ret.kind = "df" THEN r.ret.rows ELSE <<>>,
                         all_stocks |-> all_stocks,
                         i |-> IF r.ret.kind = "raise" THEN 0 ELSE 1,
                         asked |-> <<>>,
                         sleeps |-> 0,
                         fetched |-> <<>>,
                         results |-> <<>>,
                         ret |-> IF r.ret.kind = "raise" THEN r.ret ELSE None]
    /\ UNCHANGED <<now, stockCache, call, ma, mf, mgr>>

\* a slip: the delay is taken only after a symbol that was analysed with a
\* finding; the others go straight on to the next symbol
ScreenSymbol_sleepIfFound ==
    /\ scr.pc = "loop"
    /\ \E resps \in ScreenAnswers, wr \in WriteOutcomes :
           LET stock == scr.all_stocks[scr.i]
               r == get_stock_data(stockCache[stock.symbol], now, stock.symbol,
                                   stock.name, resps, wr)
               a == AnalyseSymbol(stock.symbol, stock.name, r.ret, sorted(DefaultPeriods),
                                  scr.lookback_days, scr.min_data_days)
           IN /\ stockCache' = [stockCache EXCEPT ![stock.symbol] = r.file]
              /\ scr' = IF a.kind = "raise"
                        THEN [scr EXCEPT !.pc = "raised", !.ret = a,
                                         !.asked = Append(@, stock.symbol),
                                         !.fetched = Append(@, r.ret)]
                        ELSE IF a.rows = <<>>
                        THEN [scr EXCEPT !.pc = IF scr.i + 1 > Len(scr.all_stocks)
                                                THEN "sort" ELSE "loop",
                                         !.i = @ + 1,
                                         !.asked = Append(@, stock.symbol),
                                         !.fetched = Append(@, r.ret)]
                        ELSE [scr EXCEPT !.pc = "sleep",
                                         !.asked = Append(@, stock.symbol),
                                         !.fetched = Append(@, r.ret),
                                         !.results = @ \o a.rows]
    /\ UNCHANGED <<now, listCache, call, ma, mf, mgr>>

\* lines 486-516: one pass of the loop body, up to pbar.update
ScreenSymbol ==
    /\ scr.pc = "loop"
    /\ \E resps \in ScreenAnswers, wr \in WriteOutcomes :
           LET stock == scr.all_stocks[scr.i]
               r == get_stock_data(stockCache[stock.symbol], now, stock.symbol,
                                   stock.name, resps, wr)
               a == AnalyseSymbol(stock.symbol, stock.name, r.ret, sorted(DefaultPeriods),
                                  scr.lookback_days, scr.min_data_days)
           IN /\ stockCache' = [stockCache EXCEPT ![stock.symbol] = r.file]
              /\ scr' = IF a.kind = "raise"
                        THEN [scr EXCEPT !.pc = "raised", !.ret = a,
                                         !.asked = Append(@, stock.symbol),
                                         !.fetched = Append(@, r.ret)]
                        ELSE [scr EXCEPT !.pc = "sleep",
                                         !.asked = Append(@, stock.symbol),
                                         !.fetched = Append(@, r.ret),
                                         !.results = @ \o a.rows]
    /\ UNCHANGED <<now, listCache, call, ma, mf, mgr>>

\* lines 518-519: time.sleep(0.1), then on to the next symbol
ScreenSleep ==
    /\ scr.pc = "sleep"
    /\ scr' = [scr EXCEPT !.i = @ + 1, !.sleeps = @ + 1,
                          !.pc = IF scr.i + 1 > Len(scr.all_stocks) THEN "sort" ELSE "loop"]
    /\ UNCHANGED <<now, stockCache, listCache, call, ma, mf, mgr>>

\* lines 521-532: sort what was found, or return an empty frame
ScreenFinish ==
    /\ scr.pc = "sort"
    /\ scr' = [scr EXCEPT !.pc = "done",
                          !.ret = [kind |-> "df", rows |-> sort_values(scr.results)]]
    /\ UNCHANGED <<now, stockCache, listCache, call, ma, mf, mgr>>

NextScreen == ScreenStart \/ ScreenSymbol \/ ScreenSleep \/ ScreenFinish

SpecScreen == InitScreen /\ [][NextScreen]_vars

----------------------------------------------------------------------------
(* Properties of the screener *)

\* C7: a failure while one symbol is fetched or analysed is caught and the
\* symbol skipped: screen_stocks never ends by an exception raised in its
\* per-symbol loop.
C7_SymbolFailureSkipped == scr.pc = "raised" => scr.i = 0

\* strong before moderate before weak
StrengthRank(label) ==
    CASE label = "strong" -> 3
      [] label = "moderate" -> 2
      [] OTHER -> 1

\* C9: the result of screen_stocks is ordered by event date descending and,
\* within one date, by strength descending: strong, moderate, weak.
C9_SortedDateThenStrength ==
    scr.pc = "done" =>
        \A j \in 1..Len(scr.ret.rows) : \A k \in (j + 1)..Len(scr.ret.rows) :
            \/ scr.ret.rows[j].date > scr.ret.rows[k].date
            \/ /\ scr.ret.rows[j].date = scr.ret.rows[k].date
               /\ StrengthRank(scr.ret.rows[j].signal_strength)
                      >= StrengthRank(scr.ret.rows[k].signal_strength)

\* the k-th series fetched is present and has at least min_data_days bars
Eligible(k) ==
    scr.fetched[k].kind = "df" /\ Len(scr.fetched[k].rows) >= scr.min_data_days

\* the rows found so far, and the rows returned, for the k-th symbol asked
RowsFor(k) ==
    {j \in 1..Len(scr.results) : scr.results[j].symbol = scr.asked[k]}
ReturnedFor(k) ==
    IF scr.pc = "done"
    THEN {j \in 1..Len(scr.ret.rows) : scr.ret.rows[j].symbol = scr.asked[k]}
    ELSE {}

\* C19: screen_stocks analyses a symbol only if its fetched series is present
\* and has at least min_data_days bars: a symbol whose series is absent or
\* shorter adds no event to the result, and no analysis of it ends the run.
C19_OnlyEligibleAnalysed ==
    scr.pc # "idle" =>
        \A k \in 1..Len(scr.fetched) :
            ~Eligible(k) =>
                /\ RowsFor(k) = {} /\ ReturnedFor(k) = {}
                /\ ~(scr.pc = "raised" /\ k = Len(scr.fetched))

\* C19's case: a finished run with min_data_days = 64 that fetched a 63-bar
\* series whose last bar crosses, and returned no row for its symbol, nor
\* for a second symbol of which no provider had a series
C19_Witness ==
    /\ scr.pc = "done" /\ scr.min_data_days = MinDataDays + 4
    /\ Len(scr.fetched) = 2
    /\ scr.fetched[1].kind = "df" /\ Len(scr.fetched[1].rows) = MinDataDays + 3
    /\ find_crossovers(calculate_moving_averages(scr.fetched[1], sorted(DefaultPeriods)),
                       sorted(DefaultPeriods), scr.lookback_days) # <<>>
    /\ scr.fetched[2] = None
    /\ scr.ret.rows = <<>>

\* the crossover events of the k-th series fetched, none when the series is
\* absent or too short
EventsOf(k) ==
    IF Eligible(k)
    THEN find_crossovers(calculate_moving_averages(scr.fetched[k], sorted(DefaultPeriods)),
                         sorted(DefaultPeriods), scr.lookback_days)
    ELSE <<>>

\* C20: the frame a completed screen_stocks run returns holds exactly one row
\* for each crossover event of each eligible symbol, with that symbol's id
\* and the event's date, and no other row: none for a symbol without a
\* crossover in the lookback window.
C20_OneRowPerEvent ==
    scr.pc = "done" =>
        /\ \A j \in 1..Len(scr.ret.rows) :
               \E k \in 1..Len(scr.asked) : scr.ret.rows[j].symbol = scr.asked[k]
        /\ \A k \in 1..Len(scr.asked) :
               LET events == EventsOf(k)
                   rows == ReturnedFor(k)
               IN /\ Cardinality(rows) = Len(events)
                  /\ \A e \in 1..Len(events) :
                         Cardinality({j \in rows :
                                        /\ scr.ret.rows[j].date = events[e].date
                                        /\ scr.ret.rows[j].slow_ma = events[e].slow_ma}) = 1

\* C20's case: a universe of two symbols; the first one's 63-bar series
\* crosses once, on its last bar, the second one's flat series never
\* crosses; the result is one row, for the first symbol, dated at its last bar
C20_Witness ==
    /\ scr.pc = "done" /\ Len(scr.asked) = 2
    /\ scr.fetched[1].kind = "df" /\ scr.fetched[1].rows = OneCrossRows
    /\ scr.fetched[2].kind = "df" /\ Len(EventsOf(2)) = 0 /\ Eligible(2)
    /\ Len(EventsOf(1)) = 1
    /\ Len(scr.ret.rows) = 1
    /\ scr.ret.rows[1].symbol = scr.asked[1]
    /\ scr.ret.rows[1].date = OneCrossRows[Len(OneCrossRows)].date

\* the k-th series fetched passes the screen's length test and is shorter
\* than the slowest window plus the lookback
InTheGap(k) ==
    /\ Eligible(k)
    /\ Len(scr.fetched[k].rows) < DefaultPeriods[Len(DefaultPeriods)] + scr.lookback_days

\* C33: a symbol whose series has at least min_data_days bars but fewer than
\* the slowest window plus lookback_days is analysed by screen_stocks (its
\* length does not stop the analysis) and contributes no event, whatever its
\* prices are.
C33_AnalysedButNoEvent ==
    scr.pc # "idle" =>
        \A k \in 1..Len(scr.fetched) :
            InTheGap(k) =>
                /\ AnalyseSymbol(scr.asked[k], "", scr.fetched[k], sorted(DefaultPeriods),
                                 scr.lookback_days, scr.min_data_days)
                      = AnalyseSymbol_anyLength(scr.asked[k], "", scr.fetched[k],
                                                sorted(DefaultPeriods), scr.lookback_days,
                                                scr.min_data_days)
                /\ RowsFor(k) = {} /\ ReturnedFor(k) = {}

\* C33's case: a finished run that fetched a 62-bar series whose last close
\* lifts the 5-day average above the 10-day average, and returned no row
\* for it
C33_Witness ==
    /\ scr.pc = "done" /\ scr.min_data_days = MinDataDays
    /\ \E k \in 1..Len(scr.fetched) :
           /\ InTheGap(k) /\ Len(scr.fetched[k].rows) = MinDataDays + 2
           /\ LET df_ma == calculate_moving_averages(scr.fetched[k], sorted(DefaultPeriods))
                  n == Len(scr.fetched[k].rows)
              IN Crosses(df_ma, 5, 10, n)
           /\ ReturnedFor(k) = {}

\* a step of a run that asks for one more series
FetchStep == scr.pc # "idle" /\ scr'.asked # scr.asked

\* C21: screen_stocks asks for the series one symbol at a time, in listing
\* order, each fetch being one step of the single loop, and before the fetch
\* for the k-th symbol exactly k-1 pacing delays have been taken: one between
\* each fetch and the next.
C21_SequentialPaced ==
    [][FetchStep =>
          /\ scr.pc = "loop"
          /\ Len(scr.asked) < Len(scr.all_stocks)
          /\ scr'.asked = Append(scr.asked, scr.all_stocks[Len(scr.asked) + 1].symbol)
          /\ scr.sleeps = Len(scr.asked)
          /\ scr'.sleeps = scr.sleeps]_vars

\* C21's case: the second symbol of the listing has been fetched, after the
\* first and after one delay
C21_Witness ==
    /\ scr.pc = "sleep"
    /\ scr.asked = <<"600519", "000001">>
    /\ scr.sleeps = 1

\* the symbols of the first n rows of a listing, in listing order
FirstSymbols(rows, n) == [k \in 1..(IF n < Len(rows) THEN n ELSE Len(rows)) |-> rows[k].symbol]

\* C15: a run of screen_stocks that was given max_stocks has asked for the
\* series of exactly the first min(max_stocks, |universe|) symbols of the
\* universe, in listing order; a run that was not given it has asked for the
\* series of every symbol of the universe.
C15_CappedInListingOrder ==
    scr.pc = "done" =>
        scr.asked = IF scr.max_stocks.kind = "none"
                    THEN FirstSymbols(scr.universe, Len(scr.universe))
                    ELSE FirstSymbols(scr.universe, scr.max_stocks.val)

----------------------------------------------------------------------------
(* QuantStockSelector: the four factor strategies *)

(* Numbers are scaled to integers: market_cap in 1e8, pb_ratio in tenths,  *)
(* dividend_yield in thousandths, roe, revenue_growth and profit_margins   *)
(* in percent, debt_to_equity in hundredths.  A field of the fundamentals  *)
(* is Num(v) or None; fundamentals fetched through akshare are the empty   *)
(* dict, NoFund.                                                           *)
Num(v) == [kind |-> "num", val |-> v]
NoFund == [present |-> FALSE]

\* "x or 0"
OrZero(x) == IF x.kind = "none" \/ x.val = 0 THEN 0 ELSE x.val

\* fund.get(key): None when the dict has no such key
FundGet(fund, key) == IF fund.present THEN fund[key] ELSE None

\* fund.get(key, default)
FundGetOr(fund, key, default) == IF fund.present THEN fund[key] ELSE Num(default)

\* the list a strategy collected, as the frame it returns:
\* pd.DataFrame(list).sort_values(score).head(20); a frame made of an empty
\* list has no column to sort by
RECURSIVE InsertScored(_, _, _)
InsertScored(r, s, asc) ==
    IF s = <<>> \/ (IF asc THEN s[Len(s)].score <= r.score ELSE s[Len(s)].score >= r.score)
    THEN Append(s, r)
    ELSE Append(InsertScored(r, SubSeq(s, 1, Len(s) - 1), asc), s[Len(s)])

RECURSIVE SortScored(_, _)
SortScored(rows, asc) ==
    IF rows = <<>> THEN <<>>
    ELSE InsertScored(rows[Len(rows)], SortScored(SubSeq(rows, 1, Len(rows) - 1), asc), asc)

StrategyFrame(list, asc) ==
    IF list.kind = "raise" THEN list
    ELSE IF list.rows = <<>> THEN Raise("KeyError")
    ELSE [kind |-> "df", rows |-> head(SortScored(list.rows, asc), 20)]

\* a loop over self.stock_data.items() that appends the row of every entry
\* picked; picks[k] is what the loop body makes of entry k: a row, a skip or
\* an exception, which ends the loop
RECURSIVE Collect(_, _)
Collect(picks, k) ==
    IF k > Len(picks) THEN [kind |-> "list", rows |-> <<>>]
    ELSE LET rest == Collect(picks, k + 1)
         IN IF picks[k].kind = "raise" THEN picks[k]
            ELSE IF rest.kind = "raise" THEN rest
            ELSE [kind |-> "list",
                  rows |-> (IF picks[k].kind = "row" THEN <<picks[k].row>> ELSE <<>>)
                               \o rest.rows]

Skip == [kind |-> "skip"]
Row(symbol, score) == [kind |-> "row", row |-> [symbol |-> symbol, score |-> score]]

\* value_strategy, defaults min_market_cap=1e9, max_pe=30, max_pb=3;
\* score times 1500
ValuePick(e) ==
    IF ~e.fundamental.present THEN Skip
    ELSE LET pe == e.fundamental.pe_ratio
             pb == e.fundamental.pb_ratio
             div_yield == OrZero(e.fundamental.dividend_yield)
             market_cap == OrZero(e.fundamental.market_cap)
         IN IF /\ market_cap >= 10
               /\ pe.kind # "none" /\ pe.val > 0 /\ pe.val <= 30
               /\ pb.kind # "none" /\ pb.val > 0 /\ pb.val <= 30
               /\ div_yield > 0
            THEN Row(e.symbol, 20 * pe.val + 20 * pb.val - 3 * div_yield)
            ELSE Skip

value_stocks(stock_data) == Collect([k \in 1..Len(stock_data) |-> ValuePick(stock_data[k])], 1)
value_strategy(stock_data) == StrategyFrame(value_stocks(stock_data), TRUE)

\* growth_strategy, defaults min_revenue_growth=0.1, min_roe=0.15; score
\* times 500; comparing None with a number raises TypeError
GrowthPick(e) ==
    LET revenue_growth == FundGet(e.fundamental, "revenue_growth")
        roe == FundGet(e.fundamental, "roe")
        profit_margin == FundGetOr(e.fundamental, "profit_margins", 0)
    IN IF revenue_growth.kind = "none" \/ roe.kind = "none" THEN Skip
       ELSE IF profit_margin.kind = "none" THEN Raise("TypeError")
       ELSE IF revenue_growth.val >= 10 /\ roe.val >= 15 /\ profit_margin.val > 0
       THEN Row(e.symbol, 2 * revenue_growth.val + 2 * roe.val + profit_margin.val)
       ELSE Skip

growth_stocks(stock_data) == Collect([k \in 1..Len(stock_data) |-> GrowthPick(stock_data[k])], 1)
growth_strategy(stock_data) == StrategyFrame(growth_stocks(stock_data), FALSE)

\* quality_strategy, defaults max_debt_ratio=1.0, min_roe=0.1; score times 1000
QualityPick(e) ==
    LET roe == FundGet(e.fundamental, "roe")
        debt_to_equity == FundGetOr(e.fundamental, "debt_to_equity", 1000)
        profit_margin == FundGetOr(e.fundamental, "profit_margins", 0)
    IN IF roe.kind = "none" THEN Skip
       ELSE IF debt_to_equity.kind = "none" \/ profit_margin.kind = "none"
       THEN Raise("TypeError")
       ELSE IF roe.val >= 10 /\ debt_to_equity.val <= 100 /\ profit_margin.val > 5
       THEN Row(e.symbol,
                4 * roe.val
                    + 3 * (100 - (IF debt_to_equity.val < 100 THEN debt_to_equity.val ELSE 100))
                    + 3 * profit_margin.val)
       ELSE Skip

quality_stocks(stock_data) == Collect([k \in 1..Len(stock_data) |-> QualityPick(stock_data[k])], 1)
quality_strategy(stock_data) == StrategyFrame(quality_stocks(stock_data), FALSE)

\* calculate_technical_indicators.  What the indicators are worth is an input
\* (price_data.indicators); whether they can be computed follows the code:
\* under 50 bars the dict is empty, a frame with akshare's column names has no
\* 'High' column, closes[-63] and closes[-252] need that many bars
calculate_technical_indicators(price_data) ==
    IF price_data.n = 0 \/ price_data.n < 50 THEN [kind |-> "empty"]
    ELSE IF price_data.cols # "yfinance" THEN Raise("KeyError")
    ELSE IF price_data.n < 63 \/ price_data.n < 252 THEN Raise("IndexError")
    ELSE [kind |-> "dict", val |-> price_data.indicators]

\* momentum_strategy, defaults min_price=10, min_volume=1e6 (volume is
\* counted in millions); score times 10
MomentumPick(e) ==
    IF e.price_data.kind = "none" \/ e.price_data.n = 0 THEN Skip
    ELSE LET indicators == calculate_technical_indicators(e.price_data)
         IN IF indicators.kind = "raise" THEN indicators
            ELSE IF indicators.kind = "empty" THEN Skip
            ELSE LET ind == indicators.val
                 IN IF /\ e.price_data.current_price >= 10
                       /\ e.price_data.volume >= 1
                       /\ ind.return_1m > 5
                       /\ ind.rsi > 50 /\ ind.rsi < 70
                       /\ ind.macd > 0
                    THEN Row(e.symbol, 3 * ind.return_1m + 3 * ind.return_3m
                                           + 2 * (ind.rsi - 50) + 2 * ind.premium_20)
                    ELSE Skip

momentum_stocks(stock_data) == Collect([k \in 1..Len(stock_data) |-> MomentumPick(stock_data[k])], 1)
momentum_strategy(stock_data) == StrategyFrame(momentum_stocks(stock_data), FALSE)

----------------------------------------------------------------------------
(* QuantStockSelector.multi_factor_selection *)

StrategyNames == <<"value", "growth", "momentum", "quality">>

\* weights in percent; the default is 0.25 each
DefaultWeights == [value |-> 25, growth |-> 25, momentum |-> 25, quality |-> 25]

RECURSIVE MinScore(_, _)
MinScore(rows, k) ==
    IF k = Len(rows) THEN rows[k].score
    ELSE LET m == MinScore(rows, k + 1) IN IF rows[k].score < m THEN rows[k].score ELSE m

RECURSIVE MaxScore(_, _)
MaxScore(rows, k) ==
    IF k = Len(rows) THEN rows[k].score
    ELSE LET m == MaxScore(rows, k + 1) IN IF rows[k].score > m THEN rows[k].score ELSE m

\* a slip: the distance from the largest score, not from the smallest
Normalized_fromMax(rows, k) ==
    IF MaxScore(rows, 1) = MinScore(rows, 1) THEN [num |-> 0, den |-> 1]
    ELSE [num |-> MaxScore(rows, 1) - rows[k].score,
          den |-> MaxScore(rows, 1) - MinScore(rows, 1)]

\* a slip: a result set without spread gives each of its symbols the full
\* score
Normalized_flatIsFull(rows, k) ==
    LET lo == MinScore(rows, 1)
        hi == MaxScore(rows, 1)
    IN IF hi = lo THEN [num |-> 1, den |-> 1]
       ELSE [num |-> rows[k].score - lo, den |-> hi - lo]

\* (score - min) / (max - min + 1e-10) as the fraction num / den; when all
\* scores are equal it is 0 / 1e-10 = 0.  The 1e-10 is otherwise left out.
Normalized(rows, k) ==
    LET lo == MinScore(rows, 1)
        hi == MaxScore(rows, 1)
    IN IF hi = lo THEN [num |-> 0, den |-> 1]
       ELSE [num |-> rows[k].score - lo, den |-> hi - lo]

\* a slip: the value factor, whose raw score is better when lower, is turned
\* round before it is combined
ScoreOf_valueInverted(dfs, name, symbol) ==
    LET rows == dfs[name].rows
        at == {k \in 1..Len(rows) : rows[k].symbol = symbol}
    IN IF at = {} THEN [num |-> 0, den |-> 1]
       ELSE IF name = "value" THEN Normalized_fromMax(rows, CHOOSE k \in at : TRUE)
       ELSE Normalized(rows, CHOOSE k \in at : TRUE)

\* lines 487-503, for one symbol: data['scores'].get(strategy_name, 0) after
\* the loop over the four frames; an empty frame is passed over
ScoreOf(dfs, name, symbol) ==
    LET rows == dfs[name].rows
        at == {k \in 1..Len(rows) : rows[k].symbol = symbol}
    IN IF at = {} THEN [num |-> 0, den |-> 1]
       ELSE Normalized(rows, CHOOSE k \in at : TRUE)

\* all_stocks: the symbols in the order they are first met, going through the
\* rows of the four frames in turn
AllStocks(dfs) ==
    LET rows == dfs.value.rows \o dfs.growth.rows \o dfs.momentum.rows \o dfs.quality.rows
        first == {k \in 1..Len(rows) : \A j \in 1..(k - 1) : rows[j].symbol # rows[k].symbol}
    IN [n \in 1..Cardinality(first) |->
           rows[CHOOSE k \in first : Cardinality({j \in first : j <= k}) = n].symbol]

\* a slip: the weighted sum divided by the sum of the weights
TotalScore_averaged(sc, weights) ==
    LET D == sc.value.den * sc.growth.den * sc.momentum.den * sc.quality.den
    IN [num |-> weights.value * sc.value.num * (D \div sc.value.den)
                  + weights.growth * sc.growth.num * (D \div sc.growth.den)
                  + weights.momentum * sc.momentum.num * (D \div sc.momentum.den)
                  + weights.quality * sc.quality.num * (D \div sc.quality.den),
        den |-> D * (weights.value + weights.growth + weights.momentum
                         + weights.quality)]

\* total_score = sum of score * weight, as one fraction over the product of
\* the four denominators
TotalScore(sc, weights) ==
    LET D == sc.value.den * sc.growth.den * sc.momentum.den * sc.quality.den
    IN [num |-> weights.value * sc.value.num * (D \div sc.value.den)
                  + weights.growth * sc.growth.num * (D \div sc.growth.den)
                  + weights.momentum * sc.momentum.num * (D \div sc.momentum.den)
                  + weights.quality * sc.quality.num * (D \div sc.quality.den),
        den |-> D]

ResultOf(dfs, weights, symbol) ==
    LET sc == [name \in {"value", "growth", "momentum", "quality"} |->
                  ScoreOf(dfs, name, symbol)]
    IN [symbol |-> symbol, total_score |-> TotalScore(sc, weights), scores |-> sc]

\* sort_values('total_score', ascending=False)
RECURSIVE InsertTotal(_, _)
InsertTotal(r, s) ==
    IF s = <<>> \/ s[Len(s)].total_score.num * r.total_score.den
                      >= r.total_score.num * s[Len(s)].total_score.den
    THEN Append(s, r)
    ELSE Append(InsertTotal(r, SubSeq(s, 1, Len(s) - 1)), s[Len(s)])

RECURSIVE SortTotal(_)
SortTotal(rows) ==
    IF rows = <<>> THEN <<>>
    ELSE InsertTotal(rows[Len(rows)], SortTotal(SubSeq(rows, 1, Len(rows) - 1)))

\* lines 477-523: the frames of the four strategies combined
Combine(dfs, weights) ==
    LET all_stocks == AllStocks(dfs)
        results == [k \in 1..Len(all_stocks) |-> ResultOf(dfs, weights, all_stocks[k])]
    IN IF results = <<>> THEN Raise("KeyError")
       ELSE [kind |-> "df", rows |-> head(SortTotal(results), 30)]

\* the four strategies run in order; the first exception ends the call
multi_factor_selection(stock_data, weights) ==
    LET value_df == value_strategy(stock_data)
        growth_df == growth_strategy(stock_data)
        momentum_df == momentum_strategy(stock_data)
        quality_df == quality_strategy(stock_data)
    IN IF value_df.kind = "raise" THEN value_df
       ELSE IF growth_df.kind = "raise" THEN growth_df
       ELSE IF momentum_df.kind = "raise" THEN momentum_df
       ELSE IF quality_df.kind = "raise" THEN quality_df
       ELSE Combine([value |-> value_df, growth |-> growth_df,
                     momentum |-> momentum_df, quality |-> quality_df], weights)

\* fundamentals as yfinance reports them
Fund(mc, pe, pb, dy, roe, de, rg, pm) ==
    [present |-> TRUE, market_cap |-> mc, pe_ratio |-> pe, pb_ratio |-> pb,
     dividend_yield |-> dy, roe |-> roe, debt_to_equity |-> de,
     revenue_growth |-> rg, profit_margins |-> pm]

\* sound on every count; dearer, more indebted but growing; paying no
\* dividend; reporting no margin; and no fundamentals at all
Fundamentals ==
    {Fund(Num(20), Num(15), Num(20), Num(20), Num(20), Num(50), Num(20), Num(10)),
     Fund(Num(50), Num(40), Num(25), Num(10), Num(30), Num(150), Num(40), Num(8)),
     Fund(Num(20), Num(10), Num(10), None, Num(12), Num(80), Num(5), Num(6)),
     Fund(Num(20), Num(12), Num(15), Num(30), Num(18), Num(40), Num(15), None),
     NoFund}

Indicators(r1, r3, rsi, macd, p20) ==
    [return_1m |-> r1, return_3m |-> r3, rsi |-> rsi, macd |-> macd, premium_20 |-> p20]

Prices(cols, n, ind) ==
    [kind |-> "df", cols |-> cols, n |-> n, current_price |-> 50, volume |-> 3,
     indicators |-> ind]

\* a year of bars in a rising market, or a flat one; ten weeks of bars; six
\* weeks of bars; a year of bars under akshare's column names
PriceHistories ==
    {Prices("yfinance", 252, Indicators(8, 12, 60, 1, 4)),
     Prices("yfinance", 252, Indicators(2, 3, 45, 0, 0)),
     Prices("yfinance", 60, Indicators(8, 12, 60, 1, 4)),
     Prices("yfinance", 40, Indicators(8, 12, 60, 1, 4)),
     Prices("akshare", 252, Indicators(8, 12, 60, 1, 4))}

Entries(symbol) ==
    {[symbol |-> symbol, price_data |-> p, fundamental |-> f] :
        p \in PriceHistories, f \in Fundamentals}

StockData ==
    {<<>>} \cup {<<a>> : a \in Entries("AAPL")}
           \cup {<<a, b>> : a \in Entries("AAPL"), b \in Entries("MSFT")}

\* a universe wider than the 20 rows a strategy keeps and the 30 rows the
\* combiner keeps: 31 symbols that all pass every filter, graded so that
\* value and momentum keep the first twenty, growth and quality the last twenty
WideSymbols ==
    <<"T01", "T02", "T03", "T04", "T05", "T06", "T07", "T08", "T09",
      "T10", "T11", "T12", "T13", "T14", "T15", "T16", "T17", "T18",
      "T19", "T20", "T21", "T22", "T23", "T24", "T25", "T26", "T27",
      "T28", "T29", "T30", "T31">>

WideEntry(i) ==
    [symbol |-> WideSymbols[i],
     price_data |-> Prices("yfinance", 252,
                           Indicators(8, 12, 60, 1,
                                      IF i <= 10 THEN 6 ELSE IF i <= 20 THEN 5 ELSE 4)),
     fundamental |-> Fund(Num(20), Num(15), Num(20),
                          Num(IF i <= 5 THEN 23 ELSE IF i <= 10 THEN 22
                              ELSE IF i <= 20 THEN 21 ELSE 20),
                          Num(20), Num(50), Num(20),
                          Num(IF i <= 11 THEN 10 ELSE IF i <= 21 THEN 11 ELSE 12))]

WideStockData == {[i \in 1..Len(WideSymbols) |-> WideEntry(i)]}

WeightChoices ==
    {DefaultWeights, [value |-> 70, growth |-> 10, momentum |-> 10, quality |-> 10]}

InitMF ==
    /\ now = 0
    /\ stockCache = [s \in Symbols |-> NoFile]
    /\ listCache = NoFile
    /\ call = NoCall
    /\ mgr = NoManager
    /\ ma = NoAnalysis /\ scr = NoScreen
    /\ mf \in {[pc |-> "ready", stock_data |-> d, weights |-> w,
                lists |-> <<>>, ret |-> None] :
                  d \in StockData \cup WideStockData, w \in WeightChoices}

\* the lists of the strategies that ran, up to the first that raised
RECURSIVE ListsRun(_, _)
ListsRun(stock_data, k) ==
    IF k > 4 THEN <<>>
    ELSE LET list == CASE k = 1 -> value_stocks(stock_data)
                       [] k = 2 -> growth_stocks(stock_data)
                       [] k = 3 -> momentum_stocks(stock_data)
                       [] OTHER -> quality_stocks(stock_data)
         IN IF list.kind = "raise" \/ list.rows = <<>> THEN <<list>>
            ELSE <<list>> \o ListsRun(stock_data, k + 1)

MultiFactorSelection ==
    /\ mf.pc = "ready"
    /\ mf' = [mf EXCEPT !.pc = "returned",
                        !.lists = ListsRun(mf.stock_data, 1),
                        !.ret = multi_factor_selection(mf.stock_data, mf.weights)]
    /\ UNCHANGED <<now, stockCache, listCache, call, ma, scr, mgr>>

NextMF == MultiFactorSelection

SpecMF == InitMF /\ [][NextMF]_vars

----------------------------------------------------------------------------
(* Properties of the selector *)

\* C10: a factor strategy whose result set is empty contributes 0 to every
\* symbol's combined score for that factor, and multi_factor_selection
\* completes without raising.
C10_EmptyStrategyContributesZero ==
    mf.pc = "returned" =>
        \A k \in 1..Len(mf.lists) :
            (mf.lists[k].kind = "list" /\ mf.lists[k].rows = <<>>) =>
                /\ mf.ret.kind = "df"
                /\ \A j \in 1..Len(mf.ret.rows) :
                       mf.ret.rows[j].scores[StrategyNames[k]].num = 0

----------------------------------------------------------------------------
(* QuantStockSelector: one factor strategy called on its own *)

InitStrategy ==
    /\ now = 0
    /\ stockCache = [s \in Symbols |-> NoFile]
    /\ listCache = NoFile
    /\ call = NoCall
    /\ mgr = NoManager
    /\ ma = NoAnalysis /\ scr = NoScreen
    /\ mf \in {[pc |-> "ready", op |-> "none", stock_data |-> d, ret |-> None] :
                  d \in StockData}

ValueStrategy ==
    /\ mf.pc = "ready"
    /\ mf' = [mf EXCEPT !.pc = "returned", !.op = "value",
                        !.ret = value_strategy(mf.stock_data)]
    /\ UNCHANGED <<now, stockCache, listCache, call, ma, scr, mgr>>

GrowthStrategy ==
    /\ mf.pc = "ready"
    /\ mf' = [mf EXCEPT !.pc = "returned", !.op = "growth",
                        !.ret = growth_strategy(mf.stock_data)]
    /\ UNCHANGED <<now, stockCache, listCache, call, ma, scr, mgr>>

MomentumStrategy ==
    /\ mf.pc = "ready"
    /\ mf' = [mf EXCEPT !.pc = "returned", !.op = "momentum",
                        !.ret = momentum_strategy(mf.stock_data)]
    /\ UNCHANGED <<now, stockCache, listCache, call, ma, scr, mgr>>

QualityStrategy ==
    /\ mf.pc = "ready"
    /\ mf' = [mf EXCEPT !.pc = "returned", !.op = "quality",
                        !.ret = quality_strategy(mf.stock_data)]
    /\ UNCHANGED <<now, stockCache, listCache, call, ma, scr, mgr>>

NextStrategy == ValueStrategy \/ GrowthStrategy \/ MomentumStrategy \/ QualityStrategy

SpecStrategy == InitStrategy /\ [][NextStrategy]_vars

----------------------------------------------------------------------------
(* Properties of the factor strategies *)

\* the fundamentals a strategy reads
RequiredOf(op) ==
    CASE op = "value" -> {"pe_ratio", "pb_ratio", "dividend_yield", "market_cap"}
      [] op = "growth" -> {"revenue_growth", "roe", "profit_margins"}
      [] op = "quality" -> {"roe", "debt_to_equity", "profit_margins"}
      [] OTHER -> {}

\* the entry has no value for one of them: the field is absent or null
Lacks(e, op) ==
    \E key \in RequiredOf(op) :
        ~e.fundamental.present \/ e.fundamental[key].kind = "none"

\* the symbols a strategy's result holds
Selected(ret) ==
    IF ret.kind = "df" THEN {ret.rows[k].symbol : k \in 1..Len(ret.rows)} ELSE {}

\* C11: a symbol lacking a fundamental that a strategy requires is left out of
\* that strategy's result, and the strategy does not fail over the missing
\* value (no TypeError from comparing it).
C11_MissingFundamentalExcluded ==
    (mf.pc = "returned" /\ mf.op \in {"value", "growth", "quality"}) =>
        \A k \in 1..Len(mf.stock_data) :
            Lacks(mf.stock_data[k], mf.op) =>
                /\ mf.stock_data[k].symbol \notin Selected(mf.ret)
                /\ ~(mf.ret.kind = "raise" /\ mf.ret.exc = "TypeError")

\* C12: a symbol with fewer bars than the 1-month, 3-month or 12-month
\* look-backs need (21, 63, 252) is left out of the momentum result, and the
\* strategy does not fail over it (no IndexError).
C12_ShortHistoryExcluded ==
    (mf.pc = "returned" /\ mf.op = "momentum") =>
        \A k \in 1..Len(mf.stock_data) :
            mf.stock_data[k].price_data.n < 252 =>
                /\ mf.stock_data[k].symbol \notin Selected(mf.ret)
                /\ ~(mf.ret.kind = "raise" /\ mf.ret.exc = "IndexError")

\* a fundamental that is present, not null and at least lo
FundAtLeast(e, key, lo) ==
    /\ e.fundamental.present /\ e.fundamental[key].kind = "num"
    /\ e.fundamental[key].val >= lo

\* market cap at or above the floor, P/E and P/B positive and at most their
\* ceilings, dividend yield positive (in the units of ValuePick)
PassesValue(e) ==
    /\ FundAtLeast(e, "market_cap", 10)
    /\ FundAtLeast(e, "pe_ratio", 1) /\ e.fundamental.pe_ratio.val <= 30
    /\ FundAtLeast(e, "pb_ratio", 1) /\ e.fundamental.pb_ratio.val <= 30
    /\ FundAtLeast(e, "dividend_yield", 1)

\* C29: value_strategy returns exactly the symbols that pass the value
\* filter, in ascending order of value score, cut to the first 20.
C29_ValueFilterSortTop ==
    (mf.pc = "returned" /\ mf.op = "value") =>
        LET passing == {k \in 1..Len(mf.stock_data) : PassesValue(mf.stock_data[k])}
        IN /\ mf.ret.kind = "df"
           /\ Selected(mf.ret) \subseteq {mf.stock_data[k].symbol : k \in passing}
           /\ Len(mf.ret.rows) = (IF Cardinality(passing) < 20
                                  THEN Cardinality(passing) ELSE 20)
           /\ \A j \in 1..(Len(mf.ret.rows) - 1) :
                  mf.ret.rows[j].score <= mf.ret.rows[j + 1].score

----------------------------------------------------------------------------
(* Properties of the combiner *)

\* the four strategy results the combiner works from
FactorFrames ==
    [value |-> value_strategy(mf.stock_data), growth |-> growth_strategy(mf.stock_data),
     momentum |-> momentum_strategy(mf.stock_data),
     quality |-> quality_strategy(mf.stock_data)]

Factors == {"value", "growth", "momentum", "quality"}

\* the raw scores of a result set, and the raw score of one of its symbols
RawScores(df) == {df.rows[k].score : k \in 1..Len(df.rows)}
RawOf(df, sym) == df.rows[CHOOSE k \in 1..Len(df.rows) : df.rows[k].symbol = sym].score
Lowest(S) == CHOOSE x \in S : \A y \in S : x <= y
Highest(S) == CHOOSE x \in S : \A y \in S : x >= y

\* min-max of sym within df, as a fraction; 0 for a symbol df does not hold
\* and when all raw scores are equal
MinMax(df, sym) ==
    IF sym \notin Selected(df) \/ Highest(RawScores(df)) = Lowest(RawScores(df))
    THEN [num |-> 0, den |-> 1]
    ELSE [num |-> RawOf(df, sym) - Lowest(RawScores(df)),
          den |-> Highest(RawScores(df)) - Lowest(RawScores(df))]

SameFraction(x, y) == x.num * y.den = y.num * x.den
FractionGE(x, y) == x.num * y.den >= y.num * x.den

\* sum over the weights of weight times min-max
WeightedSum(sym) ==
    LET v == MinMax(FactorFrames.value, sym)
        g == MinMax(FactorFrames.growth, sym)
        m == MinMax(FactorFrames.momentum, sym)
        q == MinMax(FactorFrames.quality, sym)
    IN [num |-> mf.weights.value * v.num * g.den * m.den * q.den
                  + mf.weights.growth * g.num * v.den * m.den * q.den
                  + mf.weights.momentum * m.num * v.den * g.den * q.den
                  + mf.weights.quality * q.num * v.den * g.den * m.den,
        den |-> v.den * g.den * m.den * q.den]

\* the symbols held by at least one strategy result
InSomeResult == UNION {Selected(FactorFrames[f]) : f \in Factors}

\* C13: when multi_factor_selection returns, every returned symbol is in some
\* strategy result; its score per factor lies in [0,1] and is the min-max of
\* its raw score within that strategy's result set, 0 where the set does not
\* hold it; its combined score is the weighted sum of these; rows are in
\* descending order of combined score; the top 30 of the symbols found in
\* some result are returned and no row ranks below a symbol left out.
C13_MinMaxWeightedRanking ==
    (mf.pc = "returned" /\ mf.ret.kind = "df") =>
        LET rows == mf.ret.rows
            kept == {rows[k].symbol : k \in 1..Len(rows)}
        IN /\ kept \subseteq InSomeResult
           /\ Cardinality(kept) = Len(rows)
           /\ Len(rows) = IF Cardinality(InSomeResult) < 30
                          THEN Cardinality(InSomeResult) ELSE 30
           /\ \A k \in 1..Len(rows) :
                  /\ \A f \in Factors :
                         /\ rows[k].scores[f].den > 0
                         /\ rows[k].scores[f].num >= 0
                         /\ rows[k].scores[f].num <= rows[k].scores[f].den
                         /\ SameFraction(rows[k].scores[f],
                                         MinMax(FactorFrames[f], rows[k].symbol))
                  /\ SameFraction(rows[k].total_score, WeightedSum(rows[k].symbol))
                  /\ \A j \in (k + 1)..Len(rows) :
                         FractionGE(rows[k].total_score, rows[j].total_score)
                  /\ \A sym \in InSomeResult \ kept :
                         FractionGE(rows[k].total_score, WeightedSum(sym))

\* C13's case: 31 symbols found, 30 returned, one of them scored between 0
\* and 1 on a factor and 0 on a factor whose result does not hold it
C13_Witness ==
    /\ mf.pc = "returned" /\ mf.ret.kind = "df"
    /\ Cardinality(InSomeResult) = 31 /\ Len(mf.ret.rows) = 30
    /\ \E k \in 1..Len(mf.ret.rows) :
           /\ mf.ret.rows[k].scores.value.num > 0
           /\ mf.ret.rows[k].scores.value.num < mf.ret.rows[k].scores.value.den
           /\ mf.ret.rows[k].symbol \notin Selected(FactorFrames.growth)
           /\ mf.ret.rows[k].scores.growth.num = 0

----------------------------------------------------------------------------
(* StrategyTemplate, QuantStockStrategy and StrategyManager *)

\* {**a, **b}: a dict is a function from its keys; b's values win
MergeParams(a, b) ==
    [k \in DOMAIN a \cup DOMAIN b |-> IF k \in DOMAIN b THEN b[k] ELSE a[k]]

\* StrategyTemplate.validate_parameters: every required name is a key
validate_parameters(required_params, params) ==
    \A i \in 1..Len(required_params) : required_params[i] \in DOMAIN params

\* the fields of the StrategyResult dataclass; a keyword that is none of
\* them makes the constructor raise TypeError
StrategyResultFields ==
    {"strategy_name", "selected_stocks", "execution_time", "parameters",
     "score", "message"}

StrategyResult(kw) ==
    IF DOMAIN kw \subseteq StrategyResultFields
    THEN [kind |-> "result", strategy_name |-> kw.strategy_name,
          selected_stocks |-> kw.selected_stocks, parameters |-> kw.parameters,
          score |-> kw.score, message |-> kw.message]
    ELSE Raise("TypeError")

\* QuantStockStrategy.__init__: the required names and the defaults.  Of the
\* defaults the model keeps the three that decide what execute does with the
\* data akshare gives it; weights are in percent
QuantStockStrategy ==
    [kind |-> "strategy", name |-> "QuantStockStrategy",
     required_params |-> <<"strategy_type">>,
     default_params |-> [strategy_type |-> "multi_factor", top_n |-> 20,
                         weights |-> DefaultWeights]]

\* a strategy that keeps what StrategyTemplate.__init__ sets, no default at
\* all, and requires one parameter
TemplateStrategy ==
    [kind |-> "strategy", name |-> "TemplateStrategy",
     required_params |-> <<"period">>,
     default_params |-> <<>>]

StrategyClasses == {QuantStockStrategy, TemplateStrategy}

\* self.stock_data[symbol] = entry: a dict keeps the place of a key it has
Put(stock_data, e) ==
    IF \E k \in 1..Len(stock_data) : stock_data[k].symbol = e.symbol
    THEN [k \in 1..Len(stock_data) |->
             IF stock_data[k].symbol = e.symbol THEN e ELSE stock_data[k]]
    ELSE Append(stock_data, e)

\* QuantStockSelector.fetch_stock_data: answers[symbol] is what the provider
\* gives for the symbol, an exception or price_data with fundamentals; a
\* symbol whose fetch raised is left as it was, akshare brings no
\* fundamentals, and any other source name fetches nothing
RECURSIVE fetch_stock_data(_, _, _, _, _)
fetch_stock_data(stock_data, symbols, source, answers, i) ==
    IF i > Len(symbols) \/ source \notin {"yfinance", "akshare"} THEN stock_data
    ELSE LET a == answers[symbols[i]]
             e == [symbol |-> symbols[i], price_data |-> a.price_data,
                   fundamental |-> IF source = "akshare" THEN NoFund
                                   ELSE a.fundamental]
         IN fetch_stock_data(IF a.kind = "raise" THEN stock_data
                             ELSE Put(stock_data, e),
                             symbols, source, answers, i + 1)

SymbolColumn(df) == [k \in 1..Len(df.rows) |-> df.rows[k].symbol]

Ratio(n, d) == [num |-> n, den |-> d]

\* a slip: no try around the fetching and selecting, so their exceptions
\* reach the caller
execute_uncaught(stock_data, data, kwargs, answers) ==
    LET params == MergeParams(QuantStockStrategy.default_params, kwargs)
        Without(message) ==
            StrategyResult([strategy_name |-> QuantStockStrategy.name,
                            selected_stocks |-> <<>>, execution_time |-> "now",
                            parameters |-> params, score |-> Ratio(0, 1),
                            message |-> message])
        symbols == IF data.has_symbol THEN data.symbol ELSE <<>>
        fetched == fetch_stock_data(stock_data, symbols, "akshare", answers, 1)
        strategy_type == params.strategy_type
        result_df ==
            CASE strategy_type = "value" -> value_strategy(fetched)
              [] strategy_type = "growth" -> growth_strategy(fetched)
              [] strategy_type = "momentum" -> momentum_strategy(fetched)
              [] strategy_type = "quality" -> quality_strategy(fetched)
              [] strategy_type = "multi_factor" ->
                     multi_factor_selection(fetched, params.weights)
              [] OTHER -> [kind |-> "df", rows |-> <<>>]
        selected_stocks == head(SymbolColumn(result_df), params.top_n)
        most == IF Len(symbols) < params.top_n THEN Len(symbols) ELSE params.top_n
        result ==
            StrategyResult([strategy_name |-> QuantStockStrategy.name,
                            selected_stocks |-> selected_stocks,
                            execution_time |-> "now", parameters |-> params,
                            score |-> Ratio(Len(selected_stocks), most),
                            message |-> "selected",
                            metadata |-> [total_stocks |-> Len(symbols),
                                          selected_count |-> Len(selected_stocks),
                                          strategy_type |-> strategy_type]])
    IN IF ~validate_parameters(QuantStockStrategy.required_params, params)
       THEN [ret |-> Without("validation failed"), stock_data |-> stock_data]
       ELSE IF symbols = <<>>
       THEN [ret |-> Without("no symbols"), stock_data |-> stock_data]
       ELSE IF result_df.kind = "raise"
       THEN [ret |-> result_df, stock_data |-> fetched]
       ELSE IF most = 0
       THEN [ret |-> Raise("ZeroDivisionError"), stock_data |-> fetched]
       ELSE [ret |-> result, stock_data |-> fetched]

\* QuantStockStrategy.execute(data, **kwargs) on a selector holding
\* stock_data: the result returned and the selector's stock_data afterwards.
\* Every exception raised after the validation is caught and answered by a
\* result without stocks
execute(stock_data, data, kwargs, answers) ==
    LET params == MergeParams(QuantStockStrategy.default_params, kwargs)
        Without(message) ==
            StrategyResult([strategy_name |-> QuantStockStrategy.name,
                            selected_stocks |-> <<>>, execution_time |-> "now",
                            parameters |-> params, score |-> Ratio(0, 1),
                            message |-> message])
        symbols == IF data.has_symbol THEN data.symbol ELSE <<>>
        fetched == fetch_stock_data(stock_data, symbols, "akshare", answers, 1)
        strategy_type == params.strategy_type
        result_df ==
            CASE strategy_type = "value" -> value_strategy(fetched)
              [] strategy_type = "growth" -> growth_strategy(fetched)
              [] strategy_type = "momentum" -> momentum_strategy(fetched)
              [] strategy_type = "quality" -> quality_strategy(fetched)
              [] strategy_type = "multi_factor" ->
                     multi_factor_selection(fetched, params.weights)
              [] OTHER -> [kind |-> "df", rows |-> <<>>]
        selected_stocks == head(SymbolColumn(result_df), params.top_n)
        most == IF Len(symbols) < params.top_n THEN Len(symbols) ELSE params.top_n
        result ==
            StrategyResult([strategy_name |-> QuantStockStrategy.name,
                            selected_stocks |-> selected_stocks,
                            execution_time |-> "now", parameters |-> params,
                            score |-> Ratio(Len(selected_stocks), most),
                            message |-> "selected",
                            metadata |-> [total_stocks |-> Len(symbols),
                                          selected_count |-> Len(selected_stocks),
                                          strategy_type |-> strategy_type]])
    IN IF ~validate_parameters(QuantStockStrategy.required_params, params)
       THEN [ret |-> Without("validation failed"), stock_data |-> stock_data]
       ELSE IF symbols = <<>>
       THEN [ret |-> Without("no symbols"), stock_data |-> stock_data]
       ELSE IF result_df.kind = "raise" \/ most = 0 \/ result.kind = "raise"
       THEN [ret |-> Without("failed"), stock_data |-> fetched]
       ELSE [ret |-> result, stock_data |-> fetched]

\* StrategyManager.get_strategy on the instances the discovery registered
get_strategy(strategy_instances, strategy_name) ==
    IF \E s \in strategy_instances : s.name = strategy_name
    THEN CHOOSE s \in strategy_instances : s.name = strategy_name
    ELSE None

\* StrategyManager.execute_strategy(strategy_name, data, **params): what the
\* caller gets, the parameters the strategy was run with, and the selector's
\* stock_data afterwards.  outcome is what a TemplateStrategy's execute does
execute_strategy(instances, stock_data, strategy_name, data, params, answers, outcome) ==
    LET strategy == get_strategy(instances, strategy_name)
        execution_params == MergeParams(strategy.default_params, params)
        ran == execute(stock_data, data, execution_params, answers)
    IN IF strategy.kind = "none"
       THEN [ret |-> Raise("ValueError"), executed |-> FALSE,
             execution_params |-> <<>>, stock_data |-> stock_data]
       ELSE IF ~validate_parameters(strategy.required_params, execution_params)
       THEN [ret |-> Raise("ValueError"), executed |-> FALSE,
             execution_params |-> execution_params, stock_data |-> stock_data]
       ELSE IF strategy.name = QuantStockStrategy.name
       THEN [ret |-> ran.ret, executed |-> TRUE,
             execution_params |-> execution_params, stock_data |-> ran.stock_data]
       ELSE [ret |-> outcome, executed |-> TRUE,
             execution_params |-> execution_params, stock_data |-> stock_data]

\* the names a caller may ask for, the parameters it may pass, the datasets,
\* what akshare answers for a symbol and what a TemplateStrategy's execute does
AskedNames == {"QuantStockStrategy", "TemplateStrategy", "NoSuchStrategy"}

ParamChoices ==
    {<<>>, [strategy_type |-> "momentum"], [strategy_type |-> "value"],
     [strategy_type |-> "other"], [top_n |-> 0], [period |-> 5]}

Datasets ==
    {[has_symbol |-> FALSE, symbol |-> <<>>],
     [has_symbol |-> TRUE, symbol |-> <<>>],
     [has_symbol |-> TRUE, symbol |-> <<"AAPL">>],
     [has_symbol |-> TRUE, symbol |-> <<"AAPL", "MSFT">>]}

AkshareAnswers ==
    [{"AAPL", "MSFT"} ->
        {Raise("ConnectionError"),
         [kind |-> "ok", fundamental |-> NoFund,
          price_data |-> Prices("akshare", 252, Indicators(8, 12, 60, 1, 4))]}]

TemplateOutcomes ==
    {Raise("RuntimeError"),
     StrategyResult([strategy_name |-> TemplateStrategy.name,
                     selected_stocks |-> <<"AAPL">>, execution_time |-> "now",
                     parameters |-> [period |-> 5], score |-> Ratio(1, 1),
                     message |-> "selected"])}

\* the manager after auto_discover_strategies: which classes the scan
\* registered depends on what the import of the strategies directory gives
InitManager ==
    /\ now = 0
    /\ stockCache = [s \in Symbols |-> NoFile]
    /\ listCache = NoFile
    /\ call = NoCall
    /\ ma = NoAnalysis /\ scr = NoScreen /\ mf = NoSelection
    /\ mgr \in {[pc |-> "ready", strategy_instances |-> r, stock_data |-> <<>>,
                 last |-> None] : r \in SUBSET StrategyClasses}

ExecuteStrategy ==
    /\ mgr.pc \in {"ready", "returned"}
    /\ \E strategy_name \in AskedNames, params \in ParamChoices, data \in Datasets,
          answers \in AkshareAnswers, outcome \in TemplateOutcomes :
          LET r == execute_strategy(mgr.strategy_instances, mgr.stock_data,
                                    strategy_name, data, params, answers, outcome)
          IN mgr' = [mgr EXCEPT !.pc = "returned",
                                !.stock_data = r.stock_data,
                                !.last = [kind |-> "call",
                                          strategy_name |-> strategy_name,
                                          params |-> params, data |-> data,
                                          executed |-> r.executed,
                                          execution_params |-> r.execution_params,
                                          ret |-> r.ret]]
    /\ UNCHANGED <<now, stockCache, listCache, call, ma, scr, mf>>

\* what yfinance answers for a symbol: an exception, or a year of rising
\* prices with sound fundamentals
YfinanceAnswers ==
    [{"AAPL", "MSFT"} ->
        {Raise("ConnectionError"),
         [kind |-> "ok",
          fundamental |-> Fund(Num(20), Num(15), Num(20), Num(20), Num(20), Num(50),
                               Num(20), Num(10)),
          price_data |-> Prices("yfinance", 252, Indicators(8, 12, 60, 1, 4))]}]

\* the registered QuantStockStrategy's selector is filled by a direct call
\* of its fetch_stock_data(symbols), whose source defaults to yfinance
FetchStockData ==
    /\ mgr.pc \in {"ready", "returned"}
    /\ QuantStockStrategy \in mgr.strategy_instances
    /\ \E data \in Datasets, answers \in YfinanceAnswers :
          /\ data.symbol # <<>>
          /\ mgr' = [mgr EXCEPT !.stock_data =
                         fetch_stock_data(@, data.symbol, "yfinance", answers, 1)]
    /\ UNCHANGED <<now, stockCache, listCache, call, ma, scr, mf>>

NextManager == ExecuteStrategy \/ FetchStockData

SpecManager == InitManager /\ [][NextManager]_vars

\* one turn of the loop of batch_execute on config i, r being what
\* execute_strategy gives for it: a config whose strategy_name is absent or
\* empty ("" here) is skipped, an exception is caught, a result is stored
\* under the strategy's name.  acc holds the results so far, the selector's
\* stock_data and what was done with each config
BatchStep(acc, i, config, r) ==
    IF config.strategy_name = ""
    THEN [acc EXCEPT !.steps = Append(@, [config |-> i, did |-> "skipped"])]
    ELSE IF r.ret.kind = "raise"
    THEN [acc EXCEPT !.stock_data = r.stock_data,
                     !.steps = Append(@, [config |-> i, did |-> "failed"])]
    ELSE [results |-> MergeParams(acc.results, [n \in {config.strategy_name} |-> r.ret]),
          stock_data |-> r.stock_data,
          steps |-> Append(acc.steps, [config |-> i, did |-> "completed"])]

\* a slip: the first strategy that fails ends the loop
RECURSIVE batch_execute_stopOnFailure(_, _, _, _, _, _, _)
batch_execute_stopOnFailure(instances, strategies, data, answers, outcomes, i, acc) ==
    IF i > Len(strategies) THEN acc
    ELSE CHOOSE out \in
             {IF next.steps[i].did = "failed" THEN next
              ELSE batch_execute_stopOnFailure(instances, strategies, data, answers,
                                               outcomes, i + 1, next) :
                 next \in {BatchStep(acc, i, strategies[i], r) :
                     r \in {execute_strategy(instances, acc.stock_data,
                                             strategies[i].strategy_name, data,
                                             strategies[i].params, answers,
                                             outcomes[i])}}} : TRUE

\* StrategyManager.batch_execute(strategies, data), the loop from config i
\* on; each turn is computed once, from the turn before
RECURSIVE batch_execute(_, _, _, _, _, _, _)
batch_execute(instances, strategies, data, answers, outcomes, i, acc) ==
    IF i > Len(strategies) THEN acc
    ELSE CHOOSE out \in
             {batch_execute(instances, strategies, data, answers, outcomes, i + 1, next) :
                 next \in {BatchStep(acc, i, strategies[i], r) :
                     r \in {execute_strategy(instances, acc.stock_data,
                                             strategies[i].strategy_name, data,
                                             strategies[i].params, answers,
                                             outcomes[i])}}} : TRUE

\* the configurations a batch is made of: no name, a registered strategy with
\* and without its required parameter, a name that is not registered
Configs ==
    {[strategy_name |-> "", params |-> [period |-> 5]],
     [strategy_name |-> "QuantStockStrategy", params |-> <<>>],
     [strategy_name |-> "TemplateStrategy", params |-> [period |-> 5]],
     [strategy_name |-> "TemplateStrategy", params |-> <<>>],
     [strategy_name |-> "NoSuchStrategy", params |-> <<>>]}

\* the longest list of configurations
MaxBatch == 3
ConfigLists == UNION {[1..n -> Configs] : n \in 0..MaxBatch}

\* one batch on the manager as the discovery left it
BatchExecute ==
    /\ mgr.pc = "ready"
    /\ \E strategies \in ConfigLists, data \in Datasets, answers \in AkshareAnswers,
          outcomes \in [1..MaxBatch -> TemplateOutcomes] :
          LET r == batch_execute(mgr.strategy_instances, strategies, data, answers,
                                 outcomes, 1,
                                 [results |-> <<>>, stock_data |-> mgr.stock_data,
                                  steps |-> <<>>])
          IN mgr' = [mgr EXCEPT !.pc = "returned",
                                !.stock_data = r.stock_data,
                                !.last = [kind |-> "batch", strategies |-> strategies,
                                          data |-> data, outcomes |-> outcomes,
                                          steps |-> r.steps, ret |-> r.results]]
    /\ UNCHANGED <<now, stockCache, listCache, call, ma, scr, mf>>

SpecBatch == InitManager /\ [][BatchExecute]_vars

\* what the strategy chosen by the last request's strategy_type makes of the
\* selector's data as the request left it
ChosenFrame ==
    LET t == mgr.last.execution_params.strategy_type
    IN CASE t = "value" -> value_strategy(mgr.stock_data)
         [] t = "growth" -> growth_strategy(mgr.stock_data)
         [] t = "momentum" -> momentum_strategy(mgr.stock_data)
         [] t = "quality" -> quality_strategy(mgr.stock_data)
         [] t = "multi_factor" ->
                multi_factor_selection(mgr.stock_data, mgr.last.execution_params.weights)
         [] OTHER -> [kind |-> "df", rows |-> <<>>]

\* the last request ran QuantStockStrategy.execute on a dataset whose symbol
\* column is not empty
ExecutedOnSymbols ==
    /\ mgr.pc = "returned" /\ mgr.last.executed
    /\ mgr.last.strategy_name = QuantStockStrategy.name
    /\ mgr.last.data.has_symbol /\ mgr.last.data.symbol # <<>>

\* C23: QuantStockStrategy.execute on a dataset with symbols returns a result
\* with a score and a message whose selected_stocks are the symbols the
\* chosen strategy selected, in rank order, cut to top_n; when the strategy
\* selected at least one symbol (and top_n is positive) they are not empty.
C23_ExecuteReturnsSelection ==
    (ExecutedOnSymbols /\ ChosenFrame.kind = "df" /\ ChosenFrame.rows # <<>>) =>
        /\ mgr.last.ret.kind = "result"
        /\ mgr.last.ret.selected_stocks
               = head(SymbolColumn(ChosenFrame), mgr.last.execution_params.top_n)
        /\ mgr.last.execution_params.top_n > 0 => mgr.last.ret.selected_stocks # <<>>

\* the same selection with the weight of factor f raised by d points
Raised(f, d) ==
    multi_factor_selection(mf.stock_data, [mf.weights EXCEPT ![f] = @ + d])

\* the row of a symbol in a returned frame
RowOf(df, sym) == df.rows[CHOOSE k \in 1..Len(df.rows) : df.rows[k].symbol = sym]

\* the symbol a factor ranks first: the head of that strategy's result
TopBy(f) == FactorFrames[f].rows[1].symbol

\* a returned symbol that scores 0 on every factor
ZeroOnAll(row) == \A f \in Factors : row.scores[f].num = 0

WeightRaises == {5, 30}

\* C24: raising the weight of one factor, the others unchanged, never lowers
\* the combined score of the symbol that factor ranks first, and the
\* combined score of a symbol scoring 0 on every factor is 0 before and after.
C24_WeightMonotone ==
    (mf.pc = "returned" /\ mf.ret.kind = "df") =>
        \A f \in Factors : \A d \in WeightRaises :
            LET after == Raised(f, d)
            IN /\ after.kind = "df"
               /\ (TopBy(f) \in Selected(mf.ret) /\ TopBy(f) \in Selected(after))
                     => FractionGE(RowOf(after, TopBy(f)).total_score,
                                   RowOf(mf.ret, TopBy(f)).total_score)
               /\ \A k \in 1..Len(mf.ret.rows) :
                      ZeroOnAll(mf.ret.rows[k]) => mf.ret.rows[k].total_score.num = 0
               /\ \A k \in 1..Len(after.rows) :
                      ZeroOnAll(after.rows[k]) => after.rows[k].total_score.num = 0

\* C24's case: the symbol a factor ranks first gains from a raise of that
\* factor's weight, while another returned symbol scores 0 on every factor
\* and stays at 0
C24_Witness ==
    /\ mf.pc = "returned" /\ mf.ret.kind = "df"
    /\ \E f \in Factors :
           /\ TopBy(f) \in Selected(mf.ret)
           /\ ~FractionGE(RowOf(mf.ret, TopBy(f)).total_score,
                          RowOf(Raised(f, 30), TopBy(f)).total_score)
           /\ \E k \in 1..Len(mf.ret.rows) :
                  /\ ZeroOnAll(mf.ret.rows[k])
                  /\ RowOf(Raised(f, 30), mf.ret.rows[k].symbol).total_score.num = 0

\* the value score a returned row carries, as a share of 1
ValueShare(sym) == RowOf(mf.ret, sym).scores.value

\* C34: the value factor is normalised like the others although its raw
\* score is better when lower: the symbol value_strategy ranks first gets the
\* normalised value score 0, the symbol it ranks last gets the largest one
\* (1 when the raw scores differ), and no symbol's value score is above the
\* last one's.
C34_ValueNotInverted ==
    (mf.pc = "returned" /\ mf.ret.kind = "df") =>
        LET rows == FactorFrames.value.rows
            best == rows[1]
            worst == rows[Len(rows)]
        IN /\ best.score <= worst.score
           /\ best.symbol \in Selected(mf.ret) => ValueShare(best.symbol).num = 0
           /\ (worst.symbol \in Selected(mf.ret) /\ worst.score > best.score)
                 => /\ ValueShare(worst.symbol).num = ValueShare(worst.symbol).den
                    /\ \A k \in 1..Len(mf.ret.rows) :
                           FractionGE(ValueShare(worst.symbol), mf.ret.rows[k].scores.value)

\* C34's case: with a positive value weight, the symbol value_strategy ranks
\* first is returned with value score 0 and the one it ranks last with 1
C34_Witness ==
    /\ mf.pc = "returned" /\ mf.ret.kind = "df" /\ mf.weights.value > 0
    /\ LET rows == FactorFrames.value.rows
       IN /\ Len(rows) >= 2 /\ rows[1].score < rows[Len(rows)].score
          /\ rows[1].symbol \in Selected(mf.ret)
          /\ rows[Len(rows)].symbol \in Selected(mf.ret)
          /\ ValueShare(rows[1].symbol).num = 0
          /\ ValueShare(rows[Len(rows)].symbol).num = ValueShare(rows[Len(rows)].symbol).den

\* the result set of factor f has no spread: one symbol, or equal raw scores
Flat(f) == Cardinality(RawScores(FactorFrames[f])) = 1

\* C35: when a factor's result set holds one symbol, or symbols with equal
\* raw scores, the normalisation gives 0 to each of them and raises no
\* division error, so they get from that factor what a symbol outside the
\* result set gets.
C35_FlatFactorGivesZero ==
    mf.pc = "returned" =>
        /\ ~(mf.ret.kind = "raise" /\ mf.ret.exc = "ZeroDivisionError")
        /\ mf.ret.kind = "df" =>
               \A f \in Factors :
                   Flat(f) => \A k \in 1..Len(mf.ret.rows) :
                                 /\ mf.ret.rows[k].scores[f].num = 0
                                 /\ mf.ret.rows[k].scores[f].den > 0

\* C35's case: one factor selected a single symbol, another two symbols with
\* equal raw scores; both factors give 0 to their symbols
C35_Witness ==
    /\ mf.pc = "returned" /\ mf.ret.kind = "df"
    /\ \E f, g \in Factors :
           /\ Flat(f) /\ Len(FactorFrames[f].rows) = 1
           /\ Flat(g) /\ Len(FactorFrames[g].rows) = 2
           /\ ScoreOf(FactorFrames, f, FactorFrames[f].rows[1].symbol).num = 0
           /\ \A k \in 1..Len(mf.ret.rows) :
                  mf.ret.rows[k].scores[f].num = 0 /\ mf.ret.rows[k].scores[g].num = 0

\* the last request ran QuantStockStrategy.execute
ExecutedQuant ==
    /\ mgr.pc = "returned" /\ mgr.last.kind = "call" /\ mgr.last.executed
    /\ mgr.last.strategy_name = QuantStockStrategy.name

\* C36: QuantStockStrategy.execute never raises to its caller: a dataset
\* without a symbol column or without symbols, a strategy_type that is none
\* of the five, and any exception raised while fetching or selecting are
\* answered by a StrategyResult whose selected_stocks is empty.
C36_ExecuteNeverRaises ==
    ExecutedQuant =>
        /\ mgr.last.ret.kind = "result"
        /\ (\/ ~mgr.last.data.has_symbol \/ mgr.last.data.symbol = <<>>
            \/ mgr.last.execution_params.strategy_type
                   \notin {"value", "growth", "momentum", "quality", "multi_factor"}
            \/ mgr.last.execution_params.top_n = 0
            \/ ChosenFrame.kind = "raise")
              => mgr.last.ret.selected_stocks = <<>>

\* C36's case: the strategy chosen raises on the data fetched for the
\* dataset's symbols, and execute answers with a result without stocks
C36_Witness ==
    /\ ExecutedQuant /\ mgr.last.data.symbol = <<"AAPL", "MSFT">>
    /\ mgr.last.execution_params.strategy_type = "momentum"
    /\ mgr.stock_data # <<>>
    /\ ChosenFrame.kind = "raise"
    /\ mgr.last.ret.kind = "result" /\ mgr.last.ret.selected_stocks = <<>>

\* the required parameters of the strategy asked for that the caller left out
MissingRequired(r) ==
    LET strategy == get_strategy(mgr.strategy_instances, r.strategy_name)
    IN IF strategy.kind = "none" THEN {}
       ELSE {strategy.required_params[i] : i \in 1..Len(strategy.required_params)}
                \ DOMAIN r.params

\* C14: a request for a strategy name that is not registered, or one that
\* leaves out a required parameter of the strategy, is answered by an error
\* raised to the caller and the strategy is not run on a default put in the
\* parameter's place
C14_ConfigurationErrorRejected ==
    mgr.pc = "returned" =>
        LET r == mgr.last
        IN (\/ get_strategy(mgr.strategy_instances, r.strategy_name).kind = "none"
            \/ MissingRequired(r) # {})
               => r.ret = Raise("ValueError") /\ ~r.executed

\* configuration i of the last batch fails: its name is not registered, its
\* parameters are rejected, or the strategy's execute raises
FailsInBatch(i) ==
    LET config == mgr.last.strategies[i]
        strategy == get_strategy(mgr.strategy_instances, config.strategy_name)
    IN \/ strategy.kind = "none"
       \/ ~validate_parameters(strategy.required_params,
                               MergeParams(strategy.default_params, config.params))
       \/ strategy.name = TemplateStrategy.name /\ mgr.last.outcomes[i].kind = "raise"

\* C30: batch_execute goes through the configurations in list order; a
\* configuration without a strategy name is skipped; a strategy that fails
\* (unknown name, rejected parameters, exception in execute) is skipped and
\* every later configuration is still run; the returned map has an entry for
\* a name only if an execution of that strategy completed.
C30_BatchSkipsFailures ==
    (mgr.pc = "returned" /\ mgr.last.kind = "batch") =>
        LET strategies == mgr.last.strategies
            steps == mgr.last.steps
        IN /\ Len(steps) = Len(strategies)
           /\ \A i \in 1..Len(steps) :
                  /\ steps[i].config = i
                  /\ steps[i].did = "skipped" <=> strategies[i].strategy_name = ""
                  /\ steps[i].did = "failed" <=>
                         (strategies[i].strategy_name # "" /\ FailsInBatch(i))
           /\ DOMAIN mgr.last.ret
                  = {strategies[i].strategy_name :
                        i \in {j \in 1..Len(steps) : steps[j].did = "completed"}}
           /\ \A n \in DOMAIN mgr.last.ret : mgr.last.ret[n].kind = "result"

\* C30's case: the first strategy's execute raises, the second configuration
\* has no name, the third runs and is the only entry of the map
C30_Witness ==
    /\ mgr.pc = "returned" /\ mgr.last.kind = "batch"
    /\ Len(mgr.last.strategies) = 3
    /\ mgr.last.strategies[1].strategy_name = "TemplateStrategy"
    /\ mgr.last.strategies[1].params = [period |-> 5]
    /\ mgr.last.outcomes[1].kind = "raise"
    /\ mgr.last.strategies[2].strategy_name = ""
    /\ mgr.last.strategies[3].strategy_name = "QuantStockStrategy"
    /\ mgr.last.steps = <<[config |-> 1, did |-> "failed"],
                          [config |-> 2, did |-> "skipped"],
                          [config |-> 3, did |-> "completed"]>>
    /\ DOMAIN mgr.last.ret = {"QuantStockStrategy"}


\* ---------------------------------------------------------------------
\* DataManager.session_scope (src/data/data_manager.py), one use after the
\* other; mgr holds the position inside the context manager, the calls made
\* on each session and what each use handed to its caller
\* ---------------------------------------------------------------------

\* uses of session_scope in one run
MaxUses == 3

SessionCall(session, op, raised) == [session |-> session, op |-> op, raised |-> raised]

InitSession ==
    /\ now = 0
    /\ stockCache = [s \in Symbols |-> NoFile]
    /\ listCache = NoFile
    /\ call = NoCall
    /\ ma = NoAnalysis /\ scr = NoScreen /\ mf = NoSelection
    /\ mgr = [pc |-> "idle", uses |-> 0, exc |-> "none", calls |-> <<>>,
              body |-> <<>>, outcome |-> <<>>]

\* with data_manager.session_scope() as session: session = self.create_session()
\* and the yield that hands it to the body
EnterScope ==
    /\ mgr.pc = "idle" /\ mgr.uses < MaxUses
    /\ mgr' = [mgr EXCEPT !.pc = "body", !.uses = @ + 1, !.exc = "none"]
    /\ UNCHANGED <<now, stockCache, listCache, call, ma, scr, mf>>

\* the body of the with statement ends, normally or with an exception that
\* the generator receives at its yield
BodyEnds ==
    /\ mgr.pc = "body"
    /\ \E o \in {"ok", "BodyError"} :
           mgr' = [mgr EXCEPT !.pc = IF o = "ok" THEN "commit" ELSE "except",
                              !.exc = IF o = "ok" THEN "none" ELSE o,
                              !.body = Append(@, o)]
    /\ UNCHANGED <<now, stockCache, listCache, call, ma, scr, mf>>

\* a slip: the commit placed after the try, so that its failure skips the
\* except clause
Commit_outsideTry ==
    /\ mgr.pc = "commit"
    /\ \E raised \in BOOLEAN :
           mgr' = [mgr EXCEPT !.pc = "finally",
                              !.exc = IF raised THEN "CommitError" ELSE "none",
                              !.calls = Append(@, SessionCall(mgr.uses, "commit", raised))]
    /\ UNCHANGED <<now, stockCache, listCache, call, ma, scr, mf>>

\* session.commit() inside the try: it succeeds or raises
Commit ==
    /\ mgr.pc = "commit"
    /\ \E raised \in BOOLEAN :
           mgr' = [mgr EXCEPT !.pc = IF raised THEN "except" ELSE "finally",
                              !.exc = IF raised THEN "CommitError" ELSE "none",
                              !.calls = Append(@, SessionCall(mgr.uses, "commit", raised))]
    /\ UNCHANGED <<now, stockCache, listCache, call, ma, scr, mf>>

\* except Exception: session.rollback(), the log line, and raise, which
\* leaves the exception pending through the finally clause
Rollback ==
    /\ mgr.pc = "except"
    /\ mgr' = [mgr EXCEPT !.pc = "finally",
                          !.calls = Append(@, SessionCall(mgr.uses, "rollback", FALSE))]
    /\ UNCHANGED <<now, stockCache, listCache, call, ma, scr, mf>>

\* finally: session.close(); then the with statement ends normally or the
\* pending exception reaches the caller
Close ==
    /\ mgr.pc = "finally"
    /\ mgr' = [mgr EXCEPT !.pc = "idle",
                          !.calls = Append(@, SessionCall(mgr.uses, "close", FALSE)),
                          !.outcome = Append(@, mgr.exc)]
    /\ UNCHANGED <<now, stockCache, listCache, call, ma, scr, mf>>

NextSession == EnterScope \/ BodyEnds \/ Commit \/ Rollback \/ Close

SpecSession == InitSession /\ [][NextSession]_vars

\* the positions in mgr.calls of the calls made on a session
CallsOn(session, op) ==
    {k \in 1..Len(mgr.calls) : mgr.calls[k].session = session /\ mgr.calls[k].op = op}

\* the uses that have ended
EndedUses == 1..Len(mgr.outcome)

\* C38: for every use of session_scope the session is committed iff the body
\* finishes without an exception; when the body or the commit raises, the
\* session is rolled back and that exception reaches the caller; and the
\* session is closed exactly once, after the commit or the rollback.
C38_CommitOrRollbackThenClose ==
    \A u \in EndedUses :
        LET commits == CallsOn(u, "commit")
            rollbacks == CallsOn(u, "rollback")
            closes == CallsOn(u, "close")
            commitRaised == \E k \in commits : mgr.calls[k].raised
        IN /\ (commits # {}) <=> (mgr.body[u] = "ok")
           /\ Cardinality(commits) <= 1
           /\ (mgr.body[u] # "ok" \/ commitRaised)
                 => /\ Cardinality(rollbacks) = 1
                    /\ mgr.outcome[u] = IF commitRaised THEN "CommitError" ELSE mgr.body[u]
           /\ (mgr.body[u] = "ok" /\ ~commitRaised)
                 => rollbacks = {} /\ mgr.outcome[u] = "none"
           /\ Cardinality(closes) = 1
           /\ commits \cup rollbacks # {}
           /\ \A c \in closes : \A k \in commits \cup rollbacks : k < c

\* C38's case: three uses in one run, the first committed, the second with a
\* failing body, the third with a failing commit
C38_Witness ==
    /\ mgr.pc = "idle" /\ Len(mgr.outcome) = 3
    /\ mgr.body = <<"ok", "BodyError", "ok">>
    /\ mgr.outcome = <<"none", "BodyError", "CommitError">>
    /\ mgr.calls = <<SessionCall(1, "commit", FALSE), SessionCall(1, "close", FALSE),
                     SessionCall(2, "rollback", FALSE), SessionCall(2, "close", FALSE),
                     SessionCall(3, "commit", TRUE), SessionCall(3, "rollback", FALSE),
                     SessionCall(3, "close", FALSE)>>


\* ---------------------------------------------------------------------
\* AkShareClient.batch_get_daily (src/data/akshare_client.py); mgr holds the
\* request, the calls of get_stock_daily in the order made, and the value
\* returned
\* ---------------------------------------------------------------------

\* symbols in one request
MaxDaily == 3

\* get_stock_daily(symbol, start_date, end_date) on the i-th turn of the
\* loop: a frame of the symbol's bars, None for an empty answer, or
\* DataFetchError
get_stock_daily(symbol, i, answer) ==
    CASE answer = "frame" -> [kind |-> "df", symbol |-> symbol, fetch |-> i]
      [] answer = "none" -> None
      [] OTHER -> Raise("DataFetchError")

\* result[symbol] = df
PutDaily(result, symbol, df) ==
    [k \in DOMAIN result \cup {symbol} |-> IF k = symbol THEN df ELSE result[k]]

\* a slip: the loop left at the first symbol whose fetch raises
RECURSIVE DailyLoop_stopAtFailure(_, _, _, _)
DailyLoop_stopAtFailure(symbols, answers, i, acc) ==
    IF i > Len(symbols) THEN acc
    ELSE CHOOSE out \in
           {IF df.kind = "raise" THEN [acc EXCEPT !.fetched = Append(@, symbols[i])]
            ELSE DailyLoop_stopAtFailure(symbols, answers, i + 1,
                   [fetched |-> Append(acc.fetched, symbols[i]),
                    result |-> IF df.kind = "df"
                               THEN PutDaily(acc.result, symbols[i], df)
                               ELSE acc.result]) :
              df \in {get_stock_daily(symbols[i], i, answers[i])}} : TRUE

\* for symbol in symbols: try: df = self.get_stock_daily(...); if df is not
\* None: result[symbol] = df; sleep / except Exception: log; continue
RECURSIVE DailyLoop(_, _, _, _)
DailyLoop(symbols, answers, i, acc) ==
    IF i > Len(symbols) THEN acc
    ELSE CHOOSE out \in
           {DailyLoop(symbols, answers, i + 1,
                      [fetched |-> Append(acc.fetched, symbols[i]),
                       result |-> IF df.kind = "df"
                                  THEN PutDaily(acc.result, symbols[i], df)
                                  ELSE acc.result]) :
              df \in {get_stock_daily(symbols[i], i, answers[i])}} : TRUE

\* batch_get_daily(symbols, start_date, end_date): answers[i] is what the
\* i-th call of get_stock_daily meets
batch_get_daily(symbols, answers) ==
    LET done == DailyLoop(symbols, answers, 1, [fetched |-> <<>>, result |-> <<>>])
    IN [fetched |-> done.fetched, ret |-> [kind |-> "dict", items |-> done.result]]

\* the requests: up to MaxDaily symbols, a symbol possibly listed twice
DailyLists == UNION {[1..n -> Symbols] : n \in 0..MaxDaily}

InitDaily ==
    /\ now = 0
    /\ stockCache = [s \in Symbols |-> NoFile]
    /\ listCache = NoFile
    /\ call = NoCall
    /\ ma = NoAnalysis /\ scr = NoScreen /\ mf = NoSelection
    /\ mgr = [pc |-> "ready"]

BatchGetDaily ==
    /\ mgr.pc = "ready"
    /\ \E symbols \in DailyLists :
         \E answers \in [1..Len(symbols) -> {"frame", "none", "raise"}] :
           LET r == batch_get_daily(symbols, answers)
           IN mgr' = [pc |-> "returned", symbols |-> symbols, answers |-> answers,
                      fetched |-> r.fetched, ret |-> r.ret]
    /\ UNCHANGED <<now, stockCache, listCache, call, ma, scr, mf>>

SpecDaily == InitDaily /\ [][BatchGetDaily]_vars

\* the turns of the loop on which the symbol was asked for and came with a frame
FramedTurns(symbol) ==
    {i \in 1..Len(mgr.symbols) : mgr.symbols[i] = symbol /\ mgr.answers[i] = "frame"}

\* C39: batch_get_daily fetches the symbols one at a time in list order; a
\* symbol whose fetch raises or returns nothing is left out of the result and
\* every later symbol is still fetched; the keys of the result are requested
\* symbols, and the call returns a dict whatever the single fetches do.
C39_BatchSkipsFailedSymbols ==
    mgr.pc = "returned" =>
        /\ mgr.ret.kind = "dict"
        /\ mgr.fetched = mgr.symbols
        /\ DOMAIN mgr.ret.items \subseteq {mgr.symbols[i] : i \in 1..Len(mgr.symbols)}
        /\ \A s \in Symbols :
               /\ (FramedTurns(s) = {}) => s \notin DOMAIN mgr.ret.items
               /\ (FramedTurns(s) # {}) =>
                      /\ s \in DOMAIN mgr.ret.items
                      /\ mgr.ret.items[s].symbol = s
                      /\ mgr.ret.items[s].fetch \in FramedTurns(s)
                      /\ \A i \in FramedTurns(s) : i <= mgr.ret.items[s].fetch

\* C39's case: the first fetch raises, the second returns nothing, and the
\* third symbol is still fetched and is the only key of the result
C39_Witness ==
    /\ mgr.pc = "returned"
    /\ mgr.symbols = <<"600519", "600519", "000001">>
    /\ mgr.answers = <<"raise", "none", "frame">>
    /\ mgr.fetched = mgr.symbols
    /\ DOMAIN mgr.ret.items = {"000001"}
    /\ mgr.ret.items["000001"].fetch = 3

====
